---- MODULE Spec2Model ----
(***************************************************************************)
(* Reconcile pipelines of the source controller: ImageRepository and       *)
(* MavenArtifact records, the artifact root on disk, the conditions of a   *)
(* record's status and the finalizer.                                      *)
(***************************************************************************)
EXTENDS Integers, Sequences, FiniteSets, TLC

\* ---------------------------------------------------------------- bounds
\* number of reconciles started in one behaviour (also the value of now())
MaxClock == 2
\* number of events from outside the controller in one behaviour: changes of
\* specs, of the remote ends, of the cluster, and reschedulings of the pod
MaxEnv == 1
\* appended entries the captured certs slice may hold
MaxCerts == 2
MaxEdits == 2

\* ---------------------------------------------------------------- state
VARIABLES
  rec,    \* the records as stored by the API server
  run,    \* per record: the reconcile in flight, or how the last one ended
  fs,     \* per record: its directory below the artifact root
  certs,  \* the certs slice captured by MavenArtifactSecretsSyncReconciler
  env,    \* registry, Maven repository, cluster objects, flags of the process
  clock   \* number of reconciles started; the value now() returns

vars == <<rec, run, fs, certs, env, clock>>

\* ------------------------------------------------------------ identities
ImageRecs == {"i1"}
MavenRecs == {"m1", "m2"}
Recs == ImageRecs \cup MavenRecs
Kind(r) == IF r \in ImageRecs THEN "imagerepository" ELSE "mavenartifact"

\* the values --artifact-host is given over time
Hosts == {"artifact.example", "localhost.example"}

\* --artifact-host of the running process
httpHost == env.host

Digests == {"d1", "d2"}
Blobs == {"b1", "b2"}

\* ------------------------------------------------------------ conditions
ConditionReady == "Ready"
ImageRepositoryConditionImageResolved == "ImageResolved"
ImageRepositoryConditionArtifactAvailable == "ArtifactAvailable"
MavenArtifactConditionArtifactResolved == "ArtifactVersionResolved"
MavenArtifactConditionArtifactAvailable == "ArtifactAvailable"

\* dependents of the living condition set, in declaration order
imagerepositoryCondSet ==
  <<ImageRepositoryConditionImageResolved, ImageRepositoryConditionArtifactAvailable>>

MavenArtifactCondSet ==
  <<MavenArtifactConditionArtifactResolved, MavenArtifactConditionArtifactAvailable>>

GetConditionSet(r) ==
  IF r \in ImageRecs THEN imagerepositoryCondSet ELSE MavenArtifactCondSet

Range(s) == {s[i] : i \in DOMAIN s}

CondTypes(r) == {ConditionReady} \cup Range(GetConditionSet(r))

Cond(s, rs, m) == [status |-> s, reason |-> rs, message |-> m]

\* a condition type that is not present in status.conditions
NoCond == Cond("", "", "")

NoConds(r) == [t \in CondTypes(r) |-> NoCond]

SetCondition(c, t, cond) == [c EXCEPT ![t] = cond]

\* a variant that looks for a False dependent only
findFalseDependent(c, deps) ==
  LET F == SelectSeq(deps, LAMBDA t : c[t].status = "False")
  IN  IF F # <<>> THEN <<c[F[1]]>> ELSE <<>>

\* the dependent whose state Ready mirrors: a False one before an Unknown one
findUnhappyDependent(c, deps) ==
  LET F == SelectSeq(deps, LAMBDA t : c[t].status = "False")
      U == SelectSeq(deps, LAMBDA t : c[t].status = "Unknown")
  IN  IF F # <<>> THEN <<c[F[1]]>>
      ELSE IF U # <<>> THEN <<c[U[1]]>>
      ELSE <<>>

recheckHappiness(c, deps) ==
  LET u == findUnhappyDependent(c, deps)
  IN  IF u # <<>>
      THEN SetCondition(c, ConditionReady, Cond(u[1].status, u[1].reason, u[1].message))
      ELSE IF c[ConditionReady].status # "True"
           THEN SetCondition(c, ConditionReady, Cond("True", "Ready", ""))
           ELSE c

MarkTrue(c, deps, t, reason, msg) ==
  recheckHappiness(SetCondition(c, t, Cond("True", reason, msg)), deps)

MarkFalse(c, deps, t, reason, msg) ==
  LET c1 == SetCondition(c, t, Cond("False", reason, msg))
  IN  IF t \in Range(deps)
      THEN SetCondition(c1, ConditionReady, Cond("False", reason, msg))
      ELSE c1

ConditionIsUnknown(cond) == cond = NoCond \/ cond.status = "Unknown"

InitializeConditionSet(c, deps) ==
  LET c1 == IF c[ConditionReady] = NoCond
            THEN SetCondition(c, ConditionReady, Cond("Unknown", "Initializing", ""))
            ELSE c
      st == IF c1[ConditionReady].status = "True" THEN "True" ELSE "Unknown"
  IN  [t \in DOMAIN c1 |->
         IF t \in Range(deps) /\ c1[t] = NoCond
         THEN Cond(st, "Initializing", "")
         ELSE c1[t]]

\* ImageRepositoryStatus.InitializeConditions resets the conditions first,
\* MavenArtifactStatus.InitializeConditions keeps the ones present
InitializeConditions(r, c) ==
  IF r \in ImageRecs
  THEN InitializeConditionSet(NoConds(r), imagerepositoryCondSet)
  ELSE InitializeConditionSet(c, MavenArtifactCondSet)

\* ---------------------------------------------------------------- status
\* a pointer is a sequence of length at most one; <<>> is nil
Nil == <<>>

Artifact(checksum, revision, path, url, t) ==
  [checksum |-> checksum, revision |-> revision, path |-> path, url |-> url,
   lastUpdateTime |-> t]

EmptyStatus(r) ==
  [conds |-> NoConds(r), url |-> <<>>, artifact |-> Nil, observedGeneration |-> 0]

\* a variant that always takes the new artifact with its new time
takeDesiredArtifact(current, desired) == <<desired>>

preserveArtifactLastUpdateTime(current, desired) ==
  IF current = Nil THEN <<desired>>
  ELSE IF [current[1] EXCEPT !.lastUpdateTime = 0] = [desired EXCEPT !.lastUpdateTime = 0]
       THEN current
       ELSE <<desired>>

\* ------------------------------------------------------- artifact root
\* file contents are tuples: no file, an incompletely written file, the
\* bytes of a downloaded blob, the complete tar.gz packaged from x
NoFile == <<>>
Partial == <<"partial">>
Raw(b) == <<"raw", b>>
Tgz(x) == <<"tgz", x>>

\* hex SHA-1 of a file with the given content
sha1Checksum(content) == <<"sha1">> \o content

ContentIds(r) == IF r \in ImageRecs THEN Digests ELSE Blobs

\* the artifact file as downloadArtifact creates it
ScratchCopy == <<"jar", "scratch">>

\* <checksum>.tar.gz and <checksum>.tar.gz.new, and for a Maven artifact the
\* download when its path leaves the scratch directory
FileNames(r) ==
  ({"tgz", "new"} \X ContentIds(r)) \cup (IF r \in ImageRecs THEN {} ELSE {ScratchCopy})

\* httpPath of the archive named after x below the artifact root
HttpPath(r, x) == <<Kind(r), r, x>>

HttpUrl(host, path) == <<host>> \o path


\* versions of the Maven repository: releases, a snapshot, and the
\* timestamped build the snapshot stands for
ConcreteVersions == {"1.0", "2.0"}
SnapshotVersions == {"2.0-SNAPSHOT"}

\* strings.HasSuffix(v, "-SNAPSHOT")
HasSnapshotSuffix(v) == v \in SnapshotVersions

\* "<version without -SNAPSHOT>-<timestamp>-<buildNumber>"
TimestampedVersion(v) == IF v = "2.0-SNAPSHOT" THEN "2.0-20220708.171442-1" ELSE v

\* the build an entry of another extension may still name
OlderBuild == "2.0-20220101.000000-0"

ResolvedVersions ==
  ConcreteVersions \cup SnapshotVersions \cup {OlderBuild}
    \cup {TimestampedVersion(v) : v \in SnapshotVersions}

\* artifactId is any non-empty string: a plain one, and one that climbs to
\* the root of the file system and names the directory of record m2 of
\* namespace ns below the artifact root /artifacts
ArtifactIds == {"helloworld", "../../../../artifacts/mavenartifact/ns/m2/helloworld"}

\* spec.artifact without the version
MavenArtifactTypes ==
  {[artifactId |-> "helloworld", classifier |-> c, type |-> "jar"] : c \in {"", "sources"}}
    \cup {[artifactId |-> a, classifier |-> "", type |-> "jar"] : a \in ArtifactIds}

\* a variant that leaves the classifier out
ResolvedFileNameWithoutClassifier(artifact, resolved) ==
  <<artifact.artifactId, "-", resolved, ".", artifact.type>>

\* "%s-%s-%s.%s" with a classifier, "%s-%s.%s" without: the pieces in order
ResolvedFileName(artifact, resolved) ==
  IF artifact.classifier # ""
  THEN <<artifact.artifactId, "-", resolved, "-", artifact.classifier, ".", artifact.type>>
  ELSE <<artifact.artifactId, "-", resolved, ".", artifact.type>>

CacheNames(r) ==
  IF r \in ImageRecs THEN {}
  ELSE {ResolvedFileName(a, v) : a \in MavenArtifactTypes, v \in ResolvedVersions}

\* content of a sidecar <filename>.sha1: absent, without a "|", or
\* "<source>|<checksum>"
NoCache == [state |-> "absent", source |-> <<>>, checksum |-> <<>>]
\* the directory the sidecar would be in does not exist
NoDir == [state |-> "nodir", source |-> <<>>, checksum |-> <<>>]
MalformedCache == [state |-> "malformed", source |-> <<>>, checksum |-> <<>>]
artifactCache(source, checksum) ==
  [state |-> "ok", source |-> source, checksum |-> checksum]

EmptyDir(r) ==
  [dir |-> FALSE, files |-> [n \in FileNames(r) |-> NoFile],
   cache |-> [n \in CacheNames(r) |-> NoCache]]

FileExists(d, n) == d.dir /\ d.files[n] # NoFile

\* the elements of an artifactId between its "/", as they count from a
\* directory of a namespace: what climbs above it and comes back is left out
PathElements(id) ==
  IF id = "../../../../artifacts/mavenartifact/ns/m2/helloworld"
  THEN <<"..", "m2", "helloworld">>
  ELSE <<id>>

\* the directory a path of directories names, each ".." leaving the
\* directory before it
RECURSIVE Walk(_, _)
Walk(at, rest) ==
  IF rest = <<>> THEN at
  ELSE IF Head(rest) = ".."
       THEN Walk(IF at = <<>> THEN at ELSE SubSeq(at, 1, Len(at) - 1), Tail(rest))
       ELSE Walk(at \o <<Head(rest)>>, Tail(rest))

\* path.Join(httpRootDir, <kind>, parent.Namespace, parent.Name)
RecordDir(r) == <<Kind(r), r>>

\* cacheFile, "<dir of the record>/<filename>.sha1", as the file system
\* resolves it: the directory it is in and its name there
cacheFile(r, filename) ==
  LET el == PathElements(filename[1])
  IN  [dir |-> Walk(<<>>, RecordDir(r) \o SubSeq(el, 1, Len(el) - 1)),
       base |-> [filename EXCEPT ![1] = el[Len(el)]]]

\* the file names whose sidecar the reconcile of record r in flight does
\* not find at <dir of r>/<name>.sha1: those of an artifactId with a "/"
Traversing(r) ==
  IF r \in ImageRecs THEN {}
  ELSE IF Len(PathElements(run[r].spec.artifactId)) = 1 THEN {}
  ELSE {n \in CacheNames(r) : n[1] = run[r].spec.artifactId}

\* the records in whose directory the files of such a name are, given
\* that the directory exists
Owner(r) ==
  {q \in Recs : /\ \E n \in Traversing(r) : cacheFile(r, n).dir = RecordDir(q)
                /\ fs[q].dir}

\* the sidecar of file name n as the stages of record r find it: it is read
\* where its path leads, through the directory of r, and is not there when
\* a directory on the way is missing
MountedAt(r, n) ==
  LET c == cacheFile(r, n)
  IN  IF \E q \in Owner(r) : c.base \in CacheNames(q)
      THEN LET q == CHOOSE q \in Owner(r) : TRUE
           IN  IF fs[r].dir THEN fs[q].cache[c.base] ELSE NoCache
      ELSE NoDir

\* the directory of record r as its stages find it; path.Join cleans the
\* path of the scratch copy, which so is in the same directory
Mounted(r) ==
  IF Traversing(r) = {} THEN fs[r]
  ELSE LET t == Traversing(r)
       IN  [fs[r] EXCEPT
              !.cache = [n \in CacheNames(r) |->
                           IF n \in t THEN MountedAt(r, n) ELSE fs[r].cache[n]],
              !.files[ScratchCopy] =
                 IF Owner(r) = {} THEN NoFile
                 ELSE fs[CHOOSE q \in Owner(r) : TRUE].files[ScratchCopy]]

\* the artifact root after a stage of record r leaves its directory as d:
\* what it wrote is where its path leads
Stored(r, d) ==
  IF Traversing(r) = {} THEN [fs EXCEPT ![r] = d]
  ELSE
  LET t == Traversing(r)
      wrote == {n \in t : d.cache[n] # MountedAt(r, n)}
      at(b) == {n \in wrote : cacheFile(r, n).base = b}
      put(c) == [b \in DOMAIN c |->
                  IF at(b) # {} THEN d.cache[CHOOSE n \in at(b) : TRUE] ELSE c[b]]
      own == [d EXCEPT !.cache = [n \in CacheNames(r) |->
                                    IF n \in t THEN NoCache ELSE d.cache[n]],
                       !.files[ScratchCopy] = NoFile]
      was(q) == IF q = r THEN own ELSE fs[q]
  IN  [q \in Recs |->
        IF q \in Owner(r)
        THEN [was(q) EXCEPT !.cache = put(@), !.files[ScratchCopy] = d.files[ScratchCopy]]
        ELSE was(q)]

\* os.Rename: fails when asked to, or when the source does not exist
Rename(d, from, to, ok) ==
  IF ok /\ FileExists(d, from)
  THEN [d |-> [d EXCEPT !.files[to] = d.files[from], !.files[from] = NoFile],
        err |-> FALSE]
  ELSE [d |-> d, err |-> TRUE]

\* copyFile(from, to): MkdirAll, Open, Create, io.Copy.  A failure of
\* os.Create returns nil.  io says which of the steps fail.
copyFile(d, content, to, io) ==
  IF ~io.mkdir THEN [d |-> d, err |-> TRUE]
  ELSE LET d1 == [d EXCEPT !.dir = TRUE]
       IN  IF ~io.create THEN [d |-> d1, err |-> FALSE]
           ELSE IF ~io.copy
                THEN [d |-> [d1 EXCEPT !.files[to] = Partial], err |-> TRUE]
                ELSE [d |-> [d1 EXCEPT !.files[to] = content], err |-> FALSE]

\* outcomes of the filesystem steps that publish an archive
IoOk == [mkdir |-> TRUE, create |-> TRUE, copy |-> TRUE, rename |-> TRUE]

IoOutcomes ==
  { IoOk,
    [IoOk EXCEPT !.mkdir = FALSE],
    [IoOk EXCEPT !.create = FALSE],
    [IoOk EXCEPT !.create = FALSE, !.rename = FALSE],
    [IoOk EXCEPT !.copy = FALSE],
    [IoOk EXCEPT !.rename = FALSE] }

\* ------------------------------------------------------------ transport
\* a Cert is named by the PEM it yields: "" is empty, BadPEM does not parse
BadPEM == "bad"
SystemCertPool == "system"
OperatorCA == "operatorCA"

\* certs := []controllers.Cert{{Path: caCertPath}}
InitialCerts == <<OperatorCA>>

\* newTransport: the system pool plus every non-empty cert; a PEM that does
\* not parse is an error
newTransport(cs) ==
  IF \E i \in DOMAIN cs : cs[i] = BadPEM
  THEN [err |-> TRUE, pool |-> {}]
  ELSE [err |-> FALSE,
        pool |-> {SystemCertPool} \cup {cs[i] : i \in {j \in DOMAIN cs : cs[j] # ""}}]

\* ------------------------------------------------------ stage plumbing
EmptyStash ==
  [transport |-> Nil, pullSecrets |-> Nil, imageRef |-> Nil,
   authSecret |-> Nil, client |-> Nil, artifactVersion |-> Nil]

\* "unsent" is a request given up before it left
\* what a stage hands back: the stash, the parent's status, the record's
\* directory, the returned error, whether it panicked, whether it marked a
\* condition False, and the remote requests it issued, each with the outcome
\* the caller saw
StageResult(st, ps, d, err, panic, marked, reqs) ==
  [stash |-> st, status |-> ps, dir |-> d, err |-> err, panic |-> panic,
   marked |-> marked, reqs |-> reqs]

Pass(st, ps, d) == StageResult(st, ps, d, FALSE, FALSE, FALSE, {})
\* a variant that clears what is published before it returns the error
FailClearing(st, ps, d, reqs) ==
  StageResult(st, [ps EXCEPT !.artifact = Nil, !.url = <<>>], d, TRUE, FALSE, FALSE, reqs)

Fail(st, ps, d, reqs) == StageResult(st, ps, d, TRUE, FALSE, FALSE, reqs)
Soft(st, ps, d, reqs) == StageResult(st, ps, d, FALSE, FALSE, TRUE, reqs)
Panicked(st, ps, d, reqs) == StageResult(st, ps, d, FALSE, TRUE, FALSE, reqs)

\* --------------------------------------------------- image repository
ImageRefs ==
  {[shape |-> "tag", digest |-> ""], [shape |-> "malformed", digest |-> ""]}
    \cup {[shape |-> "digest", digest |-> dg] : dg \in Digests}

PullSecretNames == {"ps"}

ImageRepositoryTransportSync(st, ps, d) ==
  LET t == newTransport(InitialCerts)
  IN  IF t.err THEN Fail(st, ps, d, {})
      ELSE Pass([st EXCEPT !.transport = <<t.pool>>], ps, d)

\* the service account of a record that names none
DefaultServiceAccount == "default"

\* the service accounts of the namespace: "default" comes, goes and changes
\* its pull secrets; "builder" is there and names every pull secret
ServiceAccounts == {DefaultServiceAccount, "builder"}

\* a variant that consults "default" whatever the record names
alwaysDefault(spec) == DefaultServiceAccount

\* spec.serviceAccountName, or "default" when that is empty
serviceAccountName(spec) ==
  IF spec.serviceAccountName = "" THEN DefaultServiceAccount
  ELSE spec.serviceAccountName

\* c.TrackAndGet: the outcome of the Get for an object that is present or
\* not; apiErr is a failure of the API other than NotFound
TrackAndGet(present, apiErr) ==
  IF apiErr THEN "error" ELSE IF present THEN "found" ELSE "notfound"

\* a variant that takes no error for NotFound
IsNeverNotFound(o) == FALSE

\* apierrs.IsNotFound
IsNotFound(o) == o = "notfound"

\* apiErr: the lookup that fails with an error other than NotFound.  The
\* lookups are recorded like requests, under the name of the object
ImageRepositoryImagePullSecretsSync(st, ps, d, spec, e, apiErr) ==
  LET name == serviceAccountName(spec)
      serviceAccount ==
        IF name = DefaultServiceAccount
        THEN [present |-> e.sa, imagePullSecrets |-> e.saSecrets]
        ELSE [present |-> TRUE, imagePullSecrets |-> PullSecretNames]
      \* sets.String: the names of the spec and of the service account
      pullSecretNames == spec.imagePullSecrets \cup serviceAccount.imagePullSecrets
      \* List(): every name of the set once
      List == CHOOSE l \in [1..Cardinality(pullSecretNames) -> pullSecretNames] :
                \A i, k \in DOMAIN l : i # k => l[i] # l[k]
      sa == TrackAndGet(serviceAccount.present, apiErr = "serviceaccount")
      sec == [n \in pullSecretNames |-> TrackAndGet(n \in e.secrets, apiErr = "secret")]
      gotSa == {<<name, sa>>}
      gotAll == gotSa \cup {<<n, sec[n]>> : n \in pullSecretNames}
  IN  IF sa # "found"
      THEN IF IsNotFound(sa)
           THEN Soft(st, [ps EXCEPT !.conds = MarkFalse(@, imagerepositoryCondSet,
                            ImageRepositoryConditionImageResolved, "ServiceAccountMissing",
                            name)], d, gotSa)
           ELSE Fail(st, ps, d, gotSa)
      ELSE IF \E n \in pullSecretNames : sec[n] # "found"
      THEN IF \A n \in pullSecretNames : sec[n] = "found" \/ IsNotFound(sec[n])
           THEN Soft(st, [ps EXCEPT !.conds = MarkFalse(@, imagerepositoryCondSet,
                            ImageRepositoryConditionImageResolved, "SecretMissing", "ps")], d, gotAll)
           ELSE Fail(st, ps, d, gotAll)
      ELSE StageResult([st EXCEPT !.pullSecrets = <<List>>], ps, d,
                       FALSE, FALSE, FALSE, gotAll)

\* a variant that asks the registry whatever the shape of spec.image
HeadAlways(st, ps, d, spec, e, head) ==
  IF st.pullSecrets = Nil THEN Pass(st, ps, d)
  ELSE StageResult([st EXCEPT !.imageRef = <<spec.image>>], ps, d,
                   FALSE, FALSE, FALSE, {<<"head", "200">>})

\* head: whether the registry answers the HEAD request
ImageRepositoryImageDigestSync(st, ps, d, spec, e, head) ==
  IF spec.image.shape = "digest"
  THEN Pass([st EXCEPT !.imageRef = <<spec.image>>], ps, d)
  ELSE IF st.pullSecrets = Nil THEN Pass(st, ps, d)
  ELSE IF spec.image.shape = "malformed"
  THEN Soft(st, [ps EXCEPT !.conds = MarkFalse(@, imagerepositoryCondSet,
                   ImageRepositoryConditionImageResolved, "MalformedRepository", "")], d, {})
  ELSE IF ~head
  THEN Soft(st, [ps EXCEPT !.conds = MarkFalse(@, imagerepositoryCondSet,
                   ImageRepositoryConditionImageResolved, "RemoteError", "head")], d, {<<"head", "error">>})
  ELSE StageResult([st EXCEPT !.imageRef = <<[shape |-> "tag", digest |-> e.tag]>>],
                   ps, d, FALSE, FALSE, FALSE, {<<"head", "200">>})

\* the steps of the Sync after the skip test.  scratch names the step on
\* the scratch directory that fails, pull whether the registry serves the
\* image, io the outcome of the steps on the artifact root
pullImage(st, ps, d, r, now, scratch, pull, io) ==
  LET imageRef == st.imageRef[1]
      x == imageRef.digest
      httpPath == HttpPath(r, x)
      httpUrl == HttpUrl(httpHost, httpPath)
      ps1 == [ps EXCEPT !.conds = MarkTrue(@, imagerepositoryCondSet,
                 ImageRepositoryConditionImageResolved, "Resolved", "")]
      cp == copyFile(d, Tgz(x), <<"new", x>>, io)
      rn == Rename(cp.d, <<"new", x>>, <<"tgz", x>>, io.rename)
  IN  IF scratch = "tempdir" THEN Fail(st, ps, d, {})
      ELSE IF st.pullSecrets = Nil THEN Pass(st, ps, d)
      ELSE IF ~pull
      THEN Soft(st, [ps EXCEPT !.conds = MarkFalse(@, imagerepositoryCondSet,
                       ImageRepositoryConditionImageResolved, "RemoteError", "pull")], d, {<<"pull", "error">>})
      ELSE IF scratch = "tarball" THEN Fail(st, ps1, d, {<<"pull", "200">>})
      ELSE IF cp.err THEN Fail(st, ps1, cp.d, {<<"pull", "200">>})
      ELSE IF rn.err THEN Fail(st, ps1, rn.d, {<<"pull", "200">>})
      ELSE StageResult(st,
             [ps1 EXCEPT !.artifact = preserveArtifactLastUpdateTime(ps.artifact,
                            Artifact(sha1Checksum(Tgz(x)), imageRef, httpPath, httpUrl, now)),
                         !.url = httpUrl,
                         !.conds = MarkTrue(ps1.conds, imagerepositoryCondSet,
                            ImageRepositoryConditionArtifactAvailable, "Available", "")],
             rn.d, FALSE, FALSE, FALSE, {<<"pull", "200">>})

\* a variant of the stage without the skip test
PullImageAlways(st, ps, d, r, now, scratch, pull, io) ==
  IF st.imageRef = Nil THEN Pass(st, ps, d)
  ELSE pullImage(st, ps, d, r, now, scratch, pull, io)

ImageRepositoryPullImageSync(st, ps, d, r, now, scratch, pull, io) ==
  IF st.imageRef = Nil THEN Pass(st, ps, d)
  ELSE LET x == st.imageRef[1].digest
           httpUrl == HttpUrl(httpHost, HttpPath(r, x))
       IN  IF FileExists(d, <<"tgz", x>>) /\ httpUrl = ps.url
           THEN IF ps.artifact = Nil THEN Panicked(st, ps, d, {})
                ELSE IF httpUrl = ps.artifact[1].url
                THEN LET c1 == IF ConditionIsUnknown(ps.conds[ImageRepositoryConditionImageResolved])
                               THEN MarkTrue(ps.conds, imagerepositoryCondSet,
                                      ImageRepositoryConditionImageResolved, "Resolved", "")
                               ELSE ps.conds
                     IN  Pass(st, [ps EXCEPT !.conds = MarkTrue(c1, imagerepositoryCondSet,
                                     ImageRepositoryConditionArtifactAvailable, "Available", "")], d)
                ELSE pullImage(st, ps, d, r, now, scratch, pull, io)
           ELSE pullImage(st, ps, d, r, now, scratch, pull, io)

\* a variant of the removal that empties the directory and leaves it
RemoveContents(d, r, ok, keep) ==
  IF ok THEN [d |-> [EmptyDir(r) EXCEPT !.dir = d.dir], err |-> FALSE]
  ELSE [d |-> [d EXCEPT !.files = [n \in DOMAIN d.files |-> IF n \in keep THEN d.files[n] ELSE NoFile],
                        !.cache = [n \in DOMAIN d.cache |-> IF <<"sha1", n>> \in keep THEN d.cache[n] ELSE NoCache]],
        err |-> TRUE]

\* a variant of the removal that reports no error when it fails
RemoveAllSilently(d, r, ok, keep) ==
  IF ok THEN [d |-> EmptyDir(r), err |-> FALSE]
  ELSE [d |-> [d EXCEPT !.files = [n \in DOMAIN d.files |-> IF n \in keep THEN d.files[n] ELSE NoFile],
                        !.cache = [n \in DOMAIN d.cache |-> IF <<"sha1", n>> \in keep THEN d.cache[n] ELSE NoCache]],
        err |-> FALSE]

\* Finalize: os.RemoveAll of the record's directory.  keep is what a failed
\* removal leaves behind
RemoveAll(d, r, ok, keep) ==
  IF ok THEN [d |-> EmptyDir(r), err |-> FALSE]
  ELSE [d |-> [d EXCEPT !.files = [n \in DOMAIN d.files |-> IF n \in keep THEN d.files[n] ELSE NoFile],
                        !.cache = [n \in DOMAIN d.cache |-> IF <<"sha1", n>> \in keep THEN d.cache[n] ELSE NoCache]],
        err |-> TRUE]


\* ------------------------------------------------------------- errors
DeadlineExceeded == "context deadline exceeded"

\* an error value: its dynamic type, the HTTP status it carries, the errors
\* reachable through Unwrap, and its text
Error(kind, code, chain, text) ==
  [kind |-> kind, code |-> code, chain |-> chain, text |-> text]

\* fmt.Errorf without %w: the text of the cause is kept, the chain is not
\* a variant that wraps the text in a download error
ErrorfNotFound(text) == Error("download", 404, {}, text)

Errorf(text) == Error("plain", 0, {}, text)

downloadError(code, text) == Error("download", code, {}, text)

errorsIs(e, target) == target \in e.chain

\* what the remote end does with one GET: "timeout" and "refused" make
\* client.Do fail, "readerr" breaks the body of a 200, the others are the
\* status of a complete response
HttpOutcomes == {"200", "401", "403", "404", "429", "500", "timeout", "refused", "readerr"}

StatusCode(o) ==
  CASE o = "401" -> 401 [] o = "403" -> 403 [] o = "404" -> 404
    [] o = "429" -> 429 [] o = "500" -> 500 [] OTHER -> 200

\* the error of client.Do: a *url.Error that wraps the context's error
clientDo(o) ==
  IF o = "timeout" THEN <<Error("url", 0, {DeadlineExceeded}, "timeout")>>
  ELSE IF o = "refused" THEN <<Error("url", 0, {}, "refused")>>
  ELSE Nil

\* download(ctx, url, client): nil or the error it returns
download(o) ==
  IF clientDo(o) # Nil THEN <<Errorf(clientDo(o)[1].text)>>
  ELSE IF StatusCode(o) < 200 \/ StatusCode(o) >= 300
       THEN <<downloadError(StatusCode(o), "status")>>
       ELSE IF o = "readerr" THEN <<downloadError(StatusCode(o), "read")>>
            ELSE Nil

\* ------------------------------------------------------ maven artifact
\* strings.HasPrefix(version, "[") or strings.HasPrefix(version, "(")
RangeVersions == {"[1.0,2.0)", "(,1.0]"}
MavenVersions ==
  ConcreteVersions \cup {"RELEASE", "LATEST"} \cup SnapshotVersions \cup RangeVersions
SecretNames == {"s1", "s2"}
Repositories == {"repoA", "repoB"}

\* groupId with "." replaced by "/", then "/" and the artifactId
RequestPath(artifact) == <<"my-group", artifact.artifactId>>

\* "%s/%s/%s/%s" of repository URL, request path, directory and file name
DownloadURL(repo, artifact, dir, filename) ==
  <<repo>> \o RequestPath(artifact) \o <<dir, filename>>

\* versioning.snapshotVersions of the metadata of a snapshot, by what the
\* repository lists: nothing, the timestamped build for every extension,
\* entries of other extensions only, or the timestamped build of the type
\* followed by an older build of another extension
SnapshotVersionList(entries, metaVersion, type) ==
  CASE entries = "timestamped" ->
         <<[extension |-> type, value |-> TimestampedVersion(metaVersion)],
           [extension |-> "pom", value |-> TimestampedVersion(metaVersion)]>>
    [] entries = "other" ->
         <<[extension |-> "pom", value |-> TimestampedVersion(metaVersion)]>>
    [] entries = "mixed" ->
         <<[extension |-> type, value |-> TimestampedVersion(metaVersion)],
           [extension |-> "pom", value |-> OlderBuild]>>
    [] OTHER -> <<>>

\* MavenMetadata.SnapshotResolvedVersion: the metadata's version, unless an
\* entry has the extension of the type and the value of the timestamped
\* build of the metadata's version.  sv = &v takes the address of the loop
\* variable: where every iteration has its own (perIteration) sv.Value is
\* the value of the last matching entry, where the loop has one variable it
\* is the value of the last entry of the list
SnapshotResolvedVersion(metaVersion, list, type, perIteration) ==
  LET tempvalue == TimestampedVersion(metaVersion)
      matching == {i \in 1..Len(list) :
                     list[i].extension = type /\ list[i].value = tempvalue}
      last == CHOOSE i \in matching : \A k \in matching : k <= i
  IN  IF matching = {} THEN metaVersion
      ELSE IF perIteration THEN list[last].value
      ELSE list[Len(list)].value

\* MavenResolver.Resolve: pinned versions need no request, RELEASE and
\* LATEST read maven-metadata.xml of the artifact, a -SNAPSHOT version (as
\* given, or as LATEST names it) reads maven-metadata.xml of that version,
\* a range is refused.  perIteration: how the build treats the loop
\* variable of SnapshotResolvedVersion.
\* meta, meta2: the outcomes of the first and of the second metadata
\* request; "badxml" is a 200 whose body does not parse
Resolve(spec, e, meta, meta2, perIteration) ==
  LET artifact == [artifactId |-> spec.artifactId, classifier |-> spec.classifier,
                   type |-> spec.type]
      none == [err |-> Nil, version |-> "", filename |-> <<>>, url |-> <<>>, reqs |-> {}]
      \* Artifact.Version, ResolvedVersion and the directory of the download
      ok(v, resolved, dir, reqs) ==
        [none EXCEPT !.version = v, !.filename = ResolvedFileName(artifact, resolved),
                     !.url = DownloadURL(spec.repo, artifact, dir,
                                         ResolvedFileName(artifact, resolved)),
                     !.reqs = reqs]
      failed(err, reqs) == [none EXCEPT !.err = <<err>>, !.reqs = reqs]
      get(m, reqs) ==
        IF m = "badxml" THEN failed(Errorf("parsing XML"), reqs \cup {<<"metadata", m>>})
        ELSE IF download(m) # Nil THEN failed(download(m)[1], reqs \cup {<<"metadata", m>>})
        ELSE [none EXCEPT !.reqs = reqs \cup {<<"metadata", m>>}]
      processSnapshotVersion(v, m, reqs) ==
        LET g == get(m, reqs)
        IN  IF g.err # Nil THEN g
            ELSE LET list == SnapshotVersionList(e.snapshot, v, spec.type)
                 IN  ok(v, IF Len(list) > 0
                           THEN SnapshotResolvedVersion(v, list, spec.type, perIteration)
                           ELSE v, v, g.reqs)
      g1 == get(meta, {})
  IN  IF spec.version \in RangeVersions
      THEN failed(Errorf("Invalid version; ranges are not supported"), {})
      ELSE IF spec.version = "RELEASE"
      THEN IF g1.err # Nil THEN g1
           ELSE IF e.release = "" THEN failed(Errorf("artifact metadata does not have a RELEASE version"), g1.reqs)
           ELSE ok(e.release, e.release, e.release, g1.reqs)
      ELSE IF spec.version = "LATEST"
      THEN IF g1.err # Nil THEN g1
           ELSE IF e.latest = "" THEN failed(Errorf("artifact metadata does not have a LATEST version"), g1.reqs)
           ELSE IF HasSnapshotSuffix(e.latest)
                THEN processSnapshotVersion(e.latest, meta2, g1.reqs)
                ELSE ok(e.latest, e.latest, e.latest, g1.reqs)
      ELSE IF HasSnapshotSuffix(spec.version)
      THEN processSnapshotVersion(spec.version, meta, {})
      ELSE ok(spec.version, spec.version, spec.version, {})

\* certs == the slice captured by the closure, as it is when the Sync runs
MavenArtifactSecretsSync(st, ps, d, spec, e, cs, apiErr) ==
  LET sec == IF spec.secretRef = "" THEN "nodata" ELSE e.secret[spec.secretRef]
      st1 == IF spec.secretRef = "" THEN st ELSE [st EXCEPT !.authSecret = <<sec>>]
      cs1 == IF sec = "nodata" THEN cs ELSE Append(cs, sec)
      t == newTransport(cs1)
      o == TrackAndGet(sec # "absent", apiErr)
      got == IF spec.secretRef = "" THEN {} ELSE {<<spec.secretRef, o>>}
  IN  IF spec.secretRef # "" /\ o # "found"
      THEN IF IsNotFound(o)
           THEN [res |-> Soft(st, [ps EXCEPT !.conds = MarkFalse(@, MavenArtifactCondSet,
                           MavenArtifactConditionArtifactResolved, "SecretMissing", spec.secretRef)], d, got),
                 certs |-> cs]
           ELSE [res |-> Fail(st, ps, d, got), certs |-> cs]
      ELSE IF t.err THEN [res |-> Fail(st1, ps, d, got), certs |-> cs1]
      ELSE [res |-> StageResult([st1 EXCEPT !.client = <<t.pool>>], ps, d,
                                FALSE, FALSE, FALSE, got),
            certs |-> cs1]

\* a variant that hands 403 to the driver as well
RetryStatusAlso403(code) == code = 403 \/ code = 429 \/ code >= 500

\* a variant that hands only 429 to the driver
RetryStatusOnly429(code) == code = 429

\* the status codes for which the error is handed to the driver and no
\* condition is marked: 429 and the 500 range
RetryStatus(code) == code = 429 \/ code >= 500

\* the message of the condition a failed request marks False
RemoteMessage(e) ==
  IF e.kind # "download" THEN e.text
  ELSE IF e.code = 401 THEN "401" ELSE IF e.code = 404 THEN "404" ELSE "other"

MavenArtifactVersionSync(st, ps, d, spec, e, meta, meta2, perIteration) ==
  IF st.client = Nil THEN Pass(st, ps, d)
  ELSE IF spec.scheme # "https"
  THEN Soft(st, [ps EXCEPT !.conds = MarkFalse(@, MavenArtifactCondSet,
                   MavenArtifactConditionArtifactResolved, "ConfigurationError", "scheme")], d, {})
  ELSE LET mr == Resolve(spec, e, meta, meta2, perIteration)
           mark(reason, msg) ==
             Soft(st, [ps EXCEPT !.conds = MarkFalse(@, MavenArtifactCondSet,
                          MavenArtifactConditionArtifactResolved, reason, msg)], d, mr.reqs)
       IN  IF mr.err # Nil
           THEN LET err == mr.err[1]
                IN  IF errorsIs(err, DeadlineExceeded) THEN mark("Timeout", "timeout")
                    ELSE IF err.kind = "download"
                    THEN IF RetryStatus(err.code)
                         THEN Fail(st, ps, d, mr.reqs)
                         ELSE mark("RemoteError", RemoteMessage(err))
                    ELSE mark("VersionError", err.text)
           ELSE StageResult(
                  [st EXCEPT !.artifactVersion =
                     <<[version |-> mr.version, filename |-> mr.filename, url |-> mr.url]>>],
                  [ps EXCEPT !.conds = MarkTrue(@, MavenArtifactCondSet,
                     MavenArtifactConditionArtifactResolved, "Resolved", mr.version)],
                  d, FALSE, FALSE, FALSE, mr.reqs)


\* downloadArtifact: nil or the error it returns.  o is the outcome of the
\* GET, scratch the failing step on the scratch directory, checksum the
\* remote .sha1 value
downloadArtifact(o, scratch, e, checksum) ==
  IF scratch = "artifactdir" THEN <<Errorf("mkdir")>>
  ELSE IF clientDo(o) # Nil THEN <<Errorf(clientDo(o)[1].text)>>
  ELSE IF StatusCode(o) < 200 \/ StatusCode(o) >= 300
  THEN <<downloadError(StatusCode(o), "status")>>
  ELSE IF o = "readerr" THEN <<Errorf("copy")>>
  ELSE IF sha1Checksum(Raw(e.blob)) # checksum THEN <<Errorf("tampered")>>
  ELSE Nil

\* retrieveChecksumFromFile: a missing file is no cache, a read error is
\* returned, and a content without "|" makes the index [1] panic
retrieveChecksumFromFile(c, readOk) ==
  IF c.state \in {"absent", "nodir"} THEN [cache |-> Nil, err |-> FALSE, panic |-> FALSE]
  ELSE IF ~readOk THEN [cache |-> Nil, err |-> TRUE, panic |-> FALSE]
  ELSE IF c.state = "malformed" THEN [cache |-> Nil, err |-> FALSE, panic |-> TRUE]
  ELSE [cache |-> <<c>>, err |-> FALSE, panic |-> FALSE]

\* copyCompressedFile(from, to): MkdirAll, Open, Create of <to>.new, io.Copy
\* and Rename.  A failure of os.Create returns nil before the rename
copyCompressedFile(d, content, x, io) ==
  IF ~io.mkdir THEN [d |-> d, err |-> TRUE]
  ELSE LET d1 == [d EXCEPT !.dir = TRUE]
       IN  IF ~io.create THEN [d |-> d1, err |-> FALSE]
           ELSE IF ~io.copy
                THEN [d |-> [d1 EXCEPT !.files[<<"new", x>>] = Partial], err |-> TRUE]
                ELSE Rename([d1 EXCEPT !.files[<<"new", x>>] = content],
                            <<"new", x>>, <<"tgz", x>>, io.rename)

\* os.WriteFile of the sidecar: written, not opened, or opened (truncated)
\* and then cut short before or after the "|"
WriteOutcomes == {"ok", "untouched", "empty", "cut"}

WriteFile(d, name, source, checksum, w) ==
  CASE w = "ok" -> [d |-> [d EXCEPT !.cache[name] = artifactCache(source, checksum)], err |-> FALSE]
    [] w = "empty" -> [d |-> [d EXCEPT !.cache[name] = MalformedCache], err |-> TRUE]
    [] w = "cut" -> [d |-> [d EXCEPT !.cache[name] = artifactCache(source, <<"sha1">>)], err |-> TRUE]
    [] OTHER -> [d |-> d, err |-> TRUE]

\* inputs of one run of the download stage: the outcome of the .sha1 and of
\* the artifact request, whether the sidecar can be read, the failing
\* scratch step, whether the archive extracts, the steps on the artifact
\* root and the write of the sidecar
DownloadOk ==
  [sha |-> "200", art |-> "200", read |-> TRUE, scratch |-> "none",
   extract |-> TRUE, io |-> IoOk, write |-> "ok"]

MavenArtifactDownloadSync(st, ps, d, r, e, now, in) ==
  IF st.artifactVersion = Nil THEN Pass(st, ps, d)
  ELSE IF st.client = Nil THEN Pass(st, ps, d)
  ELSE
  LET info == st.artifactVersion[1]
      mark(reason, msg, reqs) ==
        Soft(st, [ps EXCEPT !.conds = MarkFalse(@, MavenArtifactCondSet,
                     MavenArtifactConditionArtifactAvailable, reason, msg)], d, reqs)
      ckerr == download(in.sha)
      remoteChecksum == sha1Checksum(Raw(e.sha))
      rc0 == d.cache[info.filename]
      rc == retrieveChecksumFromFile(rc0, in.read)
      \* os.Create of the scratch copy fails when its directory is missing
      scratch == IF in.scratch # "tempdir" /\ rc0 = NoDir THEN "artifactdir" ELSE in.scratch
      arterr == downloadArtifact(in.art, scratch, e, remoteChecksum)
      \* a scratch copy outside the scratch directory outlives the stage
      dj == IF Len(PathElements(info.filename[1])) = 1 \/ scratch = "artifactdir" THEN d
            ELSE [d EXCEPT !.files[ScratchCopy] =
                     IF arterr = Nil \/ arterr[1].text = "tampered" THEN Raw(e.blob)
                     ELSE Partial]
      markj(reason, msg, reqs) ==
        Soft(st, [ps EXCEPT !.conds = MarkFalse(@, MavenArtifactCondSet,
                     MavenArtifactConditionArtifactAvailable, reason, msg)], dj, reqs)
      sha == {<<"sha1", in.sha>>}
      both == IF scratch = "artifactdir" THEN sha \cup {<<"file", "unsent">>}
              ELSE IF arterr # Nil /\ arterr[1].text = "tampered"
                   THEN sha \cup {<<"file", "tampered">>}
                   ELSE sha \cup {<<"file", in.art>>}
      x == e.blob
      httpPath == HttpPath(r, x)
      httpUrl == HttpUrl(httpHost, httpPath)
      cp == copyCompressedFile(dj, Tgz(x), x, in.io)
      wr == WriteFile(cp.d, info.filename, info.url, remoteChecksum, in.write)
  IN
  IF ckerr # Nil
  THEN IF errorsIs(ckerr[1], DeadlineExceeded) THEN mark("Timeout", "timeout", sha)
       ELSE IF ckerr[1].kind = "download"
       THEN IF RetryStatus(ckerr[1].code)
            THEN Fail(st, ps, d, sha)
            ELSE mark("RemoteError", RemoteMessage(ckerr[1]), sha)
       ELSE mark("RemoteError", ckerr[1].text, sha)
  ELSE IF rc.err THEN Fail(st, ps, d, sha)
  ELSE IF rc.panic THEN Panicked(st, ps, d, sha)
  ELSE IF rc.cache # Nil /\ ps.artifact # Nil
          /\ rc.cache[1].checksum = remoteChecksum /\ rc.cache[1].source = info.url
  THEN StageResult(st, ps, d, FALSE, FALSE, FALSE, sha)
  ELSE IF in.scratch = "tempdir" THEN Fail(st, ps, d, sha)
  ELSE IF arterr # Nil
  THEN IF errorsIs(arterr[1], DeadlineExceeded) THEN markj("Timeout", "timeout", both)
       ELSE IF arterr[1].kind = "download"
       THEN IF RetryStatus(arterr[1].code)
            THEN Fail(st, ps, dj, both)
            ELSE markj("DownloadError", RemoteMessage(arterr[1]), both)
       ELSE Panicked(st, ps, dj, both)
  ELSE IF ~in.extract THEN markj("FileError", "extract", both)
  ELSE IF in.scratch = "tarball" THEN Fail(st, ps, dj, both)
  ELSE IF cp.err THEN Fail(st, ps, cp.d, both)
  ELSE IF wr.err THEN Fail(st, ps, wr.d, both)
  ELSE StageResult(st,
         [ps EXCEPT !.artifact = preserveArtifactLastUpdateTime(ps.artifact,
                        Artifact(sha1Checksum(Tgz(x)), info.filename, httpPath, httpUrl, now)),
                    !.url = httpUrl,
                    !.conds = MarkTrue(ps.conds, MavenArtifactCondSet,
                        MavenArtifactConditionArtifactAvailable, "Available", "")],
         wr.d, FALSE, FALSE, FALSE, both)

\* ================================================================ state
\* spec.interval is optional for an ImageRepository (0 when left out) and
\* must be positive for a MavenArtifact
ImageSpecs ==
  {[image |-> i, imagePullSecrets |-> s, serviceAccountName |-> "",
    interval |-> IF s = {} THEN 0 ELSE 5] :
      i \in ImageRefs, s \in {{}, PullSecretNames}}
    \cup {[image |-> [shape |-> "tag", digest |-> ""], imagePullSecrets |-> PullSecretNames,
           serviceAccountName |-> "builder", interval |-> 5]}

SecretOf(r) == IF r = "m2" THEN "s2" ELSE "s1"

MavenBase ==
  [groupId |-> "my-group", artifactId |-> "helloworld", classifier |-> "",
   type |-> "jar", version |-> "1.0", secretRef |-> "", scheme |-> "https",
   repo |-> "repoA", interval |-> 5, timeout |-> Nil]

MavenSpecs(r) ==
  {[MavenBase EXCEPT !.version = v, !.secretRef = s] :
      v \in ConcreteVersions \cup {"RELEASE"} \cup RangeVersions, s \in {"", SecretOf(r)}}
    \cup {[MavenBase EXCEPT !.version = v] : v \in {"LATEST"} \cup SnapshotVersions}
    \cup {[MavenBase EXCEPT !.artifactId = a] : a \in ArtifactIds \ {MavenBase.artifactId}}
    \cup {[MavenBase EXCEPT !.classifier = "sources"],
          [MavenBase EXCEPT !.scheme = "http"],
          [MavenBase EXCEPT !.repo = "repoB", !.interval = 10]}

Specs(r) == IF r \in ImageRecs THEN ImageSpecs ELSE MavenSpecs(r)

\* the field errors without the test for a range
validateRequired(spec) ==
  {e[1] : e \in {x \in {<<"spec.artifact.groupId", spec.groupId = "">>,
                          <<"spec.artifact.artifactId", spec.artifactId = "">>,
                          <<"spec.artifact.version", spec.version = "">>} : x[2]}}

\* a variant that tests the interval alone
validateInterval(spec) == {e \in {"spec.interval"} : spec.interval <= 0}

\* MavenArtifactSpec.validate: the field errors of a spec, none when it is
\* admitted. Artifact: groupId, artifactId and version are required and the
\* version is no range. Repository: the URL is required, parses, and its
\* scheme, which url.Parse puts in lower case, is https; the name of the
\* secret, when there is one, is a DNS label. The interval is positive and
\* so is the timeout when there is one. The scheme "%zz" stands for a URL
\* on which url.Parse fails.
validate(spec) ==
  LET ToLower(scheme) == IF scheme = "HTTPS" THEN "https" ELSE scheme
      NameIsDNSLabel(n) == n \in SecretNames
      errs == {<<"spec.artifact.groupId", spec.groupId = "">>,
               <<"spec.artifact.artifactId", spec.artifactId = "">>,
               <<"spec.artifact.version",
                 spec.version = "" \/ spec.version \in RangeVersions>>,
               <<"spec.repository.url",
                 \/ spec.scheme = ""
                 \/ spec.scheme = "%zz"
                 \/ ToLower(spec.scheme) # "https">>,
               <<"spec.repository.secretRef.name",
                 spec.secretRef # "" /\ ~NameIsDNSLabel(spec.secretRef)>>,
               <<"spec.interval", spec.interval <= 0>>,
               <<"spec.timeout", spec.timeout # Nil /\ spec.timeout[1] <= 0>>}
  IN  {e[1] : e \in {x \in errs : x[2]}}

\* the objects of the cluster the stages look up
Objects == ServiceAccounts \cup PullSecretNames \cup SecretNames

\* a variant that tracks only the objects that were found
TrackedWhenFound(reqs) == {q[1] : q \in {x \in reqs : x[1] \in Objects /\ x[2] = "found"}}

\* the objects c.TrackAndGet registers for the record: Track comes before
\* the Get, whatever the Get returns
Tracked(reqs) == {q[1] : q \in {x \in reqs : x[1] \in Objects}}

ObjectKind(o) == IF o \in ServiceAccounts THEN "ServiceAccount" ELSE "Secret"

\* the kinds the Setup of the lookup stage of a record's controller watches
Watches(r) == IF r \in ImageRecs THEN {"Secret", "ServiceAccount"} ELSE {"Secret"}

\* the objects that differ between two states of the cluster
ChangedObjects(e1, e2) ==
  {o \in {DefaultServiceAccount} : e1.sa # e2.sa \/ e1.saSecrets # e2.saSecrets}
    \cup {n \in PullSecretNames : (n \in e1.secrets) # (n \in e2.secrets)}
    \cup {n \in SecretNames : e1.secret[n] # e2.secret[n]}

\* reconcilers.EnqueueTracked: the event of a watched object puts every
\* record that tracks it on the queue
EnqueueTracked(ru, r, objs) ==
  [ru EXCEPT !.enqueued =
     @ \/ \E o \in objs : o \in ru.tracked /\ ObjectKind(o) \in Watches(r)]

SecretValues == {"absent", "nodata", "", "caA", "caB", BadPEM}

Object(phase, spec, r) ==
  [phase |-> phase, spec |-> spec, generation |-> 1, finalizer |-> FALSE,
   status |-> EmptyStatus(r)]

IdleRun(r) ==
  [pc |-> "idle", spec |-> CHOOSE sp \in Specs(r) : TRUE, generation |-> 0,
   deleting |-> FALSE, status |-> EmptyStatus(r), orig |-> EmptyStatus(r),
   stash |-> EmptyStash, err |-> FALSE, panic |-> FALSE, marked |-> FALSE,
   reqs |-> {}, start |-> NoConds(r), now |-> 0, requeue |-> 0,
   tracked |-> {}, enqueued |-> FALSE]

InitEnv ==
  [tag |-> "d1", release |-> "1.0", latest |-> "2.0-SNAPSHOT", snapshot |-> "timestamped",
   blob |-> "b1", sha |-> "b1",
   sa |-> TRUE, saSecrets |-> {}, secrets |-> PullSecretNames,
   secret |-> [n \in SecretNames |-> IF n = "s1" THEN "caA" ELSE "caB"],
   host |-> "artifact.example", admission |-> Nil, response |-> Nil,
   changes |-> 0, restarts |-> 0]

\* the records in live exist, each with one of the specs of its kind, in a cluster
\* and with remote ends as e says
InitWith(live, e) ==
  /\ rec \in [Recs -> UNION {{Object(ph, sp, r) : ph \in {"live", "absent"}, sp \in Specs(r)} :
                              r \in Recs}]
  /\ \A r \in Recs :
       /\ rec[r].spec \in Specs(r)
       /\ rec[r].status = EmptyStatus(r)
       /\ rec[r].phase = (IF r \in live THEN "live" ELSE "absent")
       /\ (r \notin live => rec[r].spec = IdleRun(r).spec)
  /\ run = [r \in Recs |-> IdleRun(r)]
  /\ fs = [r \in Recs |-> EmptyDir(r)]
  /\ certs = InitialCerts
  /\ env = e
  /\ clock = 0

Init == \E r \in {"i1", "m1"} : InitWith({r}, InitEnv)

\* a cluster that lacks one of the objects the record may name
MissingEnvs(r) ==
  IF r \in ImageRecs
  THEN {[InitEnv EXCEPT !.sa = FALSE], [InitEnv EXCEPT !.secrets = {}]}
  ELSE {[InitEnv EXCEPT !.secret[SecretOf(r)] = "absent"]}

\* a record is created before the service account or the secret it needs
InitCluster == \E r \in {"i1", "m1"} : \E e \in MissingEnvs(r) : InitWith({r}, e)

Idle == \A r \in Recs : run[r].pc = "idle"

\* the records of a kind that exist; a change nobody reads is left out
Live(kind) == {r \in kind : rec[r].phase \in {"live", "deleting"}}

\* the process starts: what it tracked is lost, and the first list of the
\* informer puts every record that exists on the queue
Started(ru, r) == [ru EXCEPT !.tracked = {}, !.enqueued = r \in Live(Recs)]

FirstStage(r) == IF r \in ImageRecs THEN "transport" ELSE "secrets"

\* a variant in which the stages sync during finalization as well
EntryStageSync(r, deleting) == FirstStage(r)

\* where the Sequence begins to act: no stage is declared to sync during
\* finalization, so for a record that is being deleted every Sync is left
\* out and only the Finalize of the fetch stage runs
EntryStage(r, deleting) == IF deleting THEN "finalize" ELSE FirstStage(r)

\* ------------------------------------------------------------- driver
\* a variant that goes on when the patch fails
AddParentFinalizerUnchecked(finalizer, ok) == [finalizer |-> finalizer \/ ok, err |-> FALSE]

\* WithFinalizer before the stages: the merge patch that writes the
\* finalizer; when it fails the record is as it was and the error is returned
AddParentFinalizer(finalizer, ok) == [finalizer |-> finalizer \/ ok, err |-> ~ok]

\* ParentReconciler and WithFinalizer up to the first stage: read the
\* record, initialize the conditions, patch the finalizer in
Start(r, now) ==
  /\ run[r].pc = "idle"
  /\ rec[r].phase \in {"live", "deleting"}
  /\ LET o == rec[r]
         deleting == o.phase = "deleting"
         needPatch == ~deleting /\ ~o.finalizer
         st0 == [o.status EXCEPT !.conds = InitializeConditions(r, @)]
         base == [pc |-> EntryStage(r, deleting),
                  spec |-> o.spec, generation |-> o.generation,
                  deleting |-> deleting, status |-> st0, orig |-> o.status,
                  stash |-> EmptyStash, err |-> FALSE, panic |-> FALSE,
                  marked |-> FALSE, reqs |-> {}, start |-> st0.conds,
                  now |-> now, requeue |-> 0,
                  tracked |-> run[r].tracked, enqueued |-> FALSE]
     IN  \E patchOk \in (IF needPatch THEN BOOLEAN ELSE {TRUE}) :
           LET p == AddParentFinalizer(o.finalizer, patchOk)
           IN  /\ run' = [run EXCEPT ![r] = IF p.err THEN [base EXCEPT !.pc = "end", !.err = TRUE]
                                            ELSE base]
               /\ rec' = [rec EXCEPT ![r].finalizer = p.finalizer]
  /\ UNCHANGED <<fs, certs, env>>

\* a reconcile that starts when the clock has moved on
Reconcile(r) ==
  /\ clock < MaxClock
  /\ clock' = clock + 1
  /\ Start(r, clock + 1)

\* a reconcile that starts while the clock reads what it read before, as a
\* requeue after an error or a short interval does
ReconcileNow(r) ==
  /\ clock' = clock
  /\ Start(r, clock)

\* a stage of the Sequence has run: an error ends the Sequence, a panic
\* unwinds the reconcile before the status is written and, when nothing
\* recovers it, ends the process and with it every reconcile in flight
Advance(r, res, next, cs) ==
  /\ fs' = Stored(r, res.dir)
  /\ IF res.panic
     THEN \E crash \in BOOLEAN :
            /\ run' = [q \in Recs |->
                        IF q = r \/ (crash /\ run[q].pc # "idle")
                        THEN [IdleRun(q) EXCEPT !.panic = TRUE,
                               !.reqs = IF q = r THEN run[r].reqs \cup res.reqs ELSE {},
                               !.tracked = IF crash THEN {}
                                           ELSE run[q].tracked \cup Tracked(res.reqs),
                               !.enqueued = crash /\ q \in Live(Recs)]
                        ELSE IF crash THEN Started(run[q], q) ELSE run[q]]
            /\ certs' = IF crash THEN InitialCerts ELSE cs
     ELSE /\ run' = [run EXCEPT ![r] =
                       [@ EXCEPT !.pc = IF res.err THEN "end" ELSE next,
                                 !.status = res.status, !.stash = res.stash,
                                 !.err = res.err, !.marked = @ \/ res.marked,
                                 !.reqs = @ \cup res.reqs,
                                 !.tracked = @ \cup Tracked(res.reqs)]]
          /\ certs' = cs
  /\ UNCHANGED <<rec, env, clock>>

ImageRepositoryTransportSyncReconciler(r) ==
  /\ r \in ImageRecs /\ run[r].pc = "transport"
  /\ Advance(r, ImageRepositoryTransportSync(run[r].stash, run[r].status, Mounted(r)),
             "pullsecrets", certs)

ImageRepositoryImagePullSecretsSyncReconciler(r) ==
  /\ r \in ImageRecs /\ run[r].pc = "pullsecrets"
  /\ \E apiErr \in {"none", "serviceaccount", "secret"} :
       Advance(r, ImageRepositoryImagePullSecretsSync(run[r].stash, run[r].status,
                    Mounted(r), run[r].spec, env, apiErr), "digest", certs)

ImageRepositoryImageDigestSyncReconciler(r) ==
  /\ r \in ImageRecs /\ run[r].pc = "digest"
  /\ \E head \in BOOLEAN :
       Advance(r, ImageRepositoryImageDigestSync(run[r].stash, run[r].status,
                    Mounted(r), run[r].spec, env, head), "pull", certs)

PullInputs ==
  {[scratch |-> "none", pull |-> TRUE, io |-> io] : io \in IoOutcomes}
    \cup {[scratch |-> sc, pull |-> TRUE, io |-> IoOk] : sc \in {"tempdir", "tarball"}}
    \cup {[scratch |-> "none", pull |-> FALSE, io |-> IoOk]}

ImageRepositoryPullImageSyncReconciler(r) ==
  /\ r \in ImageRecs /\ run[r].pc = "pull"
  /\ \E in \in PullInputs :
       Advance(r, ImageRepositoryPullImageSync(run[r].stash, run[r].status, Mounted(r),
                    r, run[r].now, in.scratch, in.pull, in.io), "interval", certs)

MavenArtifactSecretsSyncReconciler(r) ==
  /\ r \in MavenRecs /\ run[r].pc = "secrets"
  /\ \E apiErr \in BOOLEAN :
       LET o == MavenArtifactSecretsSync(run[r].stash, run[r].status, Mounted(r),
                                          run[r].spec, env, certs, apiErr)
       IN  /\ Len(o.certs) <= Len(InitialCerts) + MaxCerts
           /\ Advance(r, o.res, "version", o.certs)

MetadataOutcomes == HttpOutcomes \cup {"badxml"}

\* outcomes of the second metadata request of one resolution
SecondOutcomes == {"200", "404", "500", "timeout"}

MavenArtifactVersionSyncReconciler(r) ==
  /\ r \in MavenRecs /\ run[r].pc = "version"
  /\ \E meta \in MetadataOutcomes, meta2 \in SecondOutcomes,
        perIteration \in (IF env.snapshot = "mixed" THEN BOOLEAN ELSE {TRUE}) :
       Advance(r, MavenArtifactVersionSync(run[r].stash, run[r].status, Mounted(r),
                    run[r].spec, env, meta, meta2, perIteration), "download", certs)

DownloadInputs ==
  {[DownloadOk EXCEPT !.sha = o] : o \in HttpOutcomes}
    \cup {[DownloadOk EXCEPT !.art = o] : o \in HttpOutcomes}
    \cup {[DownloadOk EXCEPT !.scratch = sc] : sc \in {"tempdir", "artifactdir", "tarball"}}
    \cup {[DownloadOk EXCEPT !.read = FALSE], [DownloadOk EXCEPT !.extract = FALSE]}
    \cup {[DownloadOk EXCEPT !.io = io, !.write = w] : io \in IoOutcomes, w \in WriteOutcomes}

MavenArtifactDownloadSyncReconciler(r) ==
  /\ r \in MavenRecs /\ run[r].pc = "download"
  /\ \E in \in DownloadInputs :
       Advance(r, MavenArtifactDownloadSync(run[r].stash, run[r].status, Mounted(r),
                    r, env, run[r].now, in), "interval", certs)

\* the Finalize of the fetch stage, the only stage that has one
Finalize(r) ==
  /\ run[r].pc = "finalize"
  /\ \E ok \in BOOLEAN :
       \E keep \in (IF ok THEN {{}}
                    ELSE SUBSET ({n \in FileNames(r) : fs[r].files[n] # NoFile}
                                   \cup {<<"sha1", n>> : n \in {m \in CacheNames(r) :
                                                               fs[r].cache[m] # NoCache}})) :
         LET rm == RemoveAll(fs[r], r, ok, keep)
         IN  /\ fs' = [fs EXCEPT ![r] = rm.d]
             /\ run' = [run EXCEPT ![r] = [@ EXCEPT !.pc = "end", !.err = rm.err]]
  /\ UNCHANGED <<rec, certs, env, clock>>

\* a variant of the interval stage that asks for nothing
IntervalSyncNone(spec) == 0

\* the Result of the interval stage: RequeueAfter is spec.interval
IntervalSync(spec) == spec.interval

\* the interval stage asks for the next reconcile; it changes nothing else.
\* The Sequence keeps the Result unless a stage returns an error
IntervalReconciler(r) ==
  /\ run[r].pc = "interval"
  /\ run' = [run EXCEPT ![r] = [@ EXCEPT !.pc = "end", !.requeue = IntervalSync(run[r].spec)]]
  /\ UNCHANGED <<rec, fs, certs, env, clock>>

\* the end of WithFinalizer and of ParentReconciler: clear the finalizer of
\* a deleted record when no stage failed, copy the generation when the
\* reconcile succeeded, write the status when it changed, and return the
\* Result of the stages, or the error with an empty Result
UpdateStatus(r) ==
  /\ run[r].pc = "end"
  /\ LET ru == run[r]
         clear == ru.deleting /\ ~ru.err
         write(s) == s # ru.orig /\ ~ru.deleting
     IN  \E patchOk \in (IF clear THEN BOOLEAN ELSE {TRUE}) :
           LET err1 == ru.err \/ ~patchOk
               st1 == IF err1 THEN ru.status
                      ELSE [ru.status EXCEPT !.observedGeneration = ru.generation]
           IN  \E updateOk \in (IF write(st1) THEN BOOLEAN ELSE {TRUE}) :
                 /\ rec' = [rec EXCEPT ![r] =
                      [@ EXCEPT !.phase = IF clear /\ patchOk THEN "gone" ELSE @,
                                !.finalizer = IF clear /\ patchOk THEN FALSE ELSE @,
                                !.status = IF write(st1) /\ updateOk THEN st1 ELSE @]]
                 /\ run' = [run EXCEPT ![r] =
                      [IdleRun(r) EXCEPT !.err = err1 \/ ~updateOk,
                                         !.requeue = IF err1 \/ ~updateOk THEN 0
                                                     ELSE ru.requeue,
                                         !.tracked = ru.tracked]]
  /\ UNCHANGED <<fs, certs, env, clock>>

\* ------------------------------------------------------- outside world
Changed(e) == [e EXCEPT !.changes = @ + 1]

Events == env.changes + env.restarts

\* someone edits the spec of a record
UpdateSpec(r) ==
  /\ Idle /\ rec[r].phase = "live" /\ Events < MaxEnv
  /\ \E sp \in Specs(r) \ {rec[r].spec} :
       rec' = [rec EXCEPT ![r] = [@ EXCEPT !.spec = sp, !.generation = @ + 1]]
  /\ env' = Changed(env)
  /\ UNCHANGED <<run, fs, certs, clock>>

\* someone deletes a record: with a finalizer it stays until that is cleared
Delete(r) ==
  /\ Idle /\ rec[r].phase = "live"
  /\ rec' = [rec EXCEPT ![r].phase = IF rec[r].finalizer THEN "deleting" ELSE "gone"]
  /\ UNCHANGED <<run, fs, certs, env, clock>>

\* the tag moves, the repository publishes, the checksum file changes
RemoteChange ==
  /\ Idle /\ Events < MaxEnv
  /\ \E e \in {[env EXCEPT !.tag = x] : x \in {y \in Digests : Live(ImageRecs) # {}}}
           \cup {[env EXCEPT !.release = x] :
                   x \in {y \in ConcreteVersions \cup {""} : Live(MavenRecs) # {}}}
           \cup {[env EXCEPT !.latest = x] :
                   x \in {y \in {"2.0", ""} \cup SnapshotVersions : Live(MavenRecs) # {}}}
           \cup {[env EXCEPT !.snapshot = x] :
                   x \in {y \in {"none", "timestamped", "other", "mixed"} :
                            Live(MavenRecs) # {}}}
           \cup {[env EXCEPT !.blob = x] : x \in {y \in Blobs : Live(MavenRecs) # {}}}
           \cup {[env EXCEPT !.sha = x] : x \in {y \in Blobs : Live(MavenRecs) # {}}}
           \cup {[env EXCEPT !.blob = x, !.sha = x] :
                   x \in {y \in Blobs : Live(MavenRecs) # {}}} :
       e # env /\ env' = Changed(e)
  /\ UNCHANGED <<rec, run, fs, certs, clock>>

\* service accounts and secrets come, go and change
ClusterChange ==
  /\ Idle /\ Events < MaxEnv
  /\ \E e \in {[env EXCEPT !.sa = x] : x \in {y \in BOOLEAN : Live(ImageRecs) # {}}}
           \cup {[env EXCEPT !.saSecrets = x] :
                   x \in {y \in SUBSET PullSecretNames : Live(ImageRecs) # {}}}
           \cup {[env EXCEPT !.secrets = x] :
                   x \in {y \in SUBSET PullSecretNames : Live(ImageRecs) # {}}}
           \cup {[env EXCEPT !.secret[n] = x] :
                   n \in {SecretOf(r) : r \in Live(MavenRecs)}, x \in SecretValues} :
       /\ e # env /\ env' = Changed(e)
       /\ run' = [r \in Recs |-> EnqueueTracked(run[r], r, ChangedObjects(env, e))]
  /\ UNCHANGED <<rec, fs, certs, clock>>

\* the pod is rescheduled: the emptyDir volume under the artifact root and
\* the memory of the process are lost, the records stay
Restart ==
  /\ Idle /\ Events < MaxEnv
  /\ fs' = [r \in Recs |-> EmptyDir(r)]
  /\ certs' = InitialCerts
  /\ env' = [env EXCEPT !.restarts = @ + 1]
  /\ run' = [r \in Recs |-> Started(run[r], r)]
  /\ UNCHANGED <<rec, clock>>

\* the controller is started again with another --artifact-host on the
\* same artifact root: the memory of the process is lost, the files stay
Redeploy ==
  /\ Idle /\ Events < MaxEnv
  /\ \E h \in Hosts \ {env.host} : env' = [Changed(env) EXCEPT !.host = h]
  /\ certs' = InitialCerts
  /\ run' = [r \in Recs |-> Started(run[r], r)]
  /\ UNCHANGED <<rec, fs, clock>>

Next ==
  \/ \E r \in Recs : Reconcile(r)
  \/ \E r \in Recs : ImageRepositoryTransportSyncReconciler(r)
  \/ \E r \in Recs : ImageRepositoryImagePullSecretsSyncReconciler(r)
  \/ \E r \in Recs : ImageRepositoryImageDigestSyncReconciler(r)
  \/ \E r \in Recs : ImageRepositoryPullImageSyncReconciler(r)
  \/ \E r \in Recs : MavenArtifactSecretsSyncReconciler(r)
  \/ \E r \in Recs : MavenArtifactVersionSyncReconciler(r)
  \/ \E r \in Recs : MavenArtifactDownloadSyncReconciler(r)
  \/ \E r \in Recs : Finalize(r)
  \/ \E r \in Recs : IntervalReconciler(r)
  \/ \E r \in Recs : UpdateStatus(r)
  \/ \E r \in Recs : UpdateSpec(r)
  \/ \E r \in Recs : Delete(r)
  \/ RemoteChange
  \/ ClusterChange
  \/ Restart
  \/ Redeploy

Spec == Init /\ [][Next]_vars

\* the controller while nobody edits a spec and neither the remote ends nor
\* the cluster change: records are reconciled again and again, deleted, and
\* the pod is rescheduled
NextQuiet ==
  \/ \E r \in Recs : Reconcile(r)
  \/ \E r \in Recs : ImageRepositoryTransportSyncReconciler(r)
  \/ \E r \in Recs : ImageRepositoryImagePullSecretsSyncReconciler(r)
  \/ \E r \in Recs : ImageRepositoryImageDigestSyncReconciler(r)
  \/ \E r \in Recs : ImageRepositoryPullImageSyncReconciler(r)
  \/ \E r \in Recs : MavenArtifactSecretsSyncReconciler(r)
  \/ \E r \in Recs : MavenArtifactVersionSyncReconciler(r)
  \/ \E r \in Recs : MavenArtifactDownloadSyncReconciler(r)
  \/ \E r \in Recs : Finalize(r)
  \/ \E r \in Recs : IntervalReconciler(r)
  \/ \E r \in Recs : UpdateStatus(r)
  \/ \E r \in Recs : Delete(r)
  \/ Restart

SpecQuiet == Init /\ [][NextQuiet]_vars

\* a service account, a pull secret or an auth secret is deleted or created
ObjectChange ==
  /\ Idle /\ Events < MaxEnv
  /\ \E e \in {[env EXCEPT !.sa = x] : x \in {y \in BOOLEAN : Live(ImageRecs) # {}}}
           \cup {[env EXCEPT !.secrets = x] :
                   x \in {y \in SUBSET PullSecretNames : Live(ImageRecs) # {}}}
           \cup {[env EXCEPT !.secret[n] = IF @ = "absent" THEN InitEnv.secret[n] ELSE "absent"] :
                   n \in {SecretOf(r) : r \in Live(MavenRecs)}} :
       /\ e # env /\ env' = Changed(e)
       /\ run' = [r \in Recs |-> EnqueueTracked(run[r], r, ChangedObjects(env, e))]
  /\ UNCHANGED <<rec, fs, certs, clock>>

\* the controller while service accounts and secrets come and go, nobody
\* edits a spec and the remote ends stay as they are
NextCluster ==
  \/ \E r \in Recs : Reconcile(r)
  \/ \E r \in Recs : ImageRepositoryTransportSyncReconciler(r)
  \/ \E r \in Recs : ImageRepositoryImagePullSecretsSyncReconciler(r)
  \/ \E r \in Recs : ImageRepositoryImageDigestSyncReconciler(r)
  \/ \E r \in Recs : ImageRepositoryPullImageSyncReconciler(r)
  \/ \E r \in Recs : MavenArtifactSecretsSyncReconciler(r)
  \/ \E r \in Recs : MavenArtifactVersionSyncReconciler(r)
  \/ \E r \in Recs : MavenArtifactDownloadSyncReconciler(r)
  \/ \E r \in Recs : Finalize(r)
  \/ \E r \in Recs : IntervalReconciler(r)
  \/ \E r \in Recs : UpdateStatus(r)
  \/ \E r \in Recs : Delete(r)
  \/ ObjectChange

SpecCluster == InitCluster /\ [][NextCluster]_vars

\* someone changes the version of a record from one release to the other,
\* and back
EditVersion(r) ==
  /\ Idle /\ rec[r].phase = "live" /\ rec[r].generation <= MaxEdits
  /\ \E v \in ConcreteVersions \ {rec[r].spec.version} :
       rec' = [rec EXCEPT ![r] = [@ EXCEPT !.spec.version = v, !.generation = @ + 1]]
  /\ UNCHANGED <<run, fs, certs, env, clock>>

\* a MavenArtifact that pins a release, in front of remote ends that do not
\* change, is reconciled again and again: the queue hands out the record as
\* long as there is something to do (an error is retried, the interval
\* requeues), and every stage that has started ends
SpecLoop ==
  /\ \E e \in {InitEnv} : InitWith({"m1"}, e) /\ rec["m1"].spec = MavenBase
  /\ [][\E r \in {"m1"} :
          \/ ReconcileNow(r)
          \/ MavenArtifactSecretsSyncReconciler(r)
          \/ MavenArtifactVersionSyncReconciler(r)
          \/ MavenArtifactDownloadSyncReconciler(r)
          \/ IntervalReconciler(r)
          \/ UpdateStatus(r)]_vars
  /\ WF_vars(\/ ReconcileNow("m1")
             \/ MavenArtifactSecretsSyncReconciler("m1")
             \/ MavenArtifactVersionSyncReconciler("m1")
             \/ MavenArtifactDownloadSyncReconciler("m1")
             \/ IntervalReconciler("m1")
             \/ UpdateStatus("m1"))

\* the same record while its version is edited between reconciles
SpecEdits ==
  /\ \E e \in {InitEnv} : InitWith({"m1"}, e) /\ rec["m1"].spec = MavenBase
  /\ [][\E r \in {"m1"} :
          \/ ReconcileNow(r)
          \/ MavenArtifactSecretsSyncReconciler(r)
          \/ MavenArtifactVersionSyncReconciler(r)
          \/ MavenArtifactDownloadSyncReconciler(r)
          \/ IntervalReconciler(r)
          \/ UpdateStatus(r)
          \/ EditVersion(r)]_vars

\* the handler of the artifact server on a request for a path of the
\* artifact root, slash when the path ends in "/": http.NotFound for a path
\* that ends in "/", http.FileServer for any other.  The file server
\* answers 404 when nothing is at the path, sends a file, and redirects
\* from a directory to the directory with "/" at its end
Handler(root, path, slash) ==
  LET r == path[2]
      stat == IF ~root[r].dir THEN "none"
              ELSE IF Len(path) = Len(RecordDir(r)) THEN "dir"
              ELSE IF root[r].files[<<"tgz", path[Len(path)]>>] # NoFile THEN "file"
              ELSE "none"
      NotFound == [status |-> 404, location |-> <<>>, body |-> "404 page not found"]
  IN  [stat |-> stat,
       res |-> IF slash \/ stat = "none" THEN NotFound
               ELSE IF stat = "dir"
               THEN [status |-> 301, location |-> <<path[Len(path)], "/">>, body |-> ""]
               ELSE [status |-> 200, location |-> <<>>, body |-> "file"]]

\* someone requests the directory of a record or an archive in it, with or
\* without "/" at the end of the path, while the controller runs
ServeHTTP ==
  /\ \E r \in ImageRecs, rest \in {<<>>} \cup {<<x>> : x \in Digests}, slash \in BOOLEAN :
       LET path == RecordDir(r) \o rest
       IN  env' = [env EXCEPT !.response =
                     <<[path |-> path, slash |-> slash] @@ Handler(fs, path, slash)>>]
  /\ UNCHANGED <<rec, run, fs, certs, clock>>

\* the artifact server next to the first reconcile of an ImageRepository
SpecServer ==
  /\ InitWith({"i1"}, InitEnv)
  /\ [][\/ \E r \in Recs : Reconcile(r)
        \/ \E r \in Recs : ImageRepositoryTransportSyncReconciler(r)
        \/ \E r \in Recs : ImageRepositoryImagePullSecretsSyncReconciler(r)
        \/ \E r \in Recs : ImageRepositoryImageDigestSyncReconciler(r)
        \/ \E r \in Recs : ImageRepositoryPullImageSyncReconciler(r)
        \/ ServeHTTP]_vars

\* the MavenArtifact objects someone asks the API server to create
MavenArtifacts ==
  {[MavenBase EXCEPT !.groupId = g, !.artifactId = a, !.version = v, !.scheme = sc,
                     !.secretRef = s, !.interval = i, !.timeout = t] :
      g \in {"", "my-group"}, a \in {"", "helloworld"},
      v \in {"", "1.0"} \cup RangeVersions,
      sc \in {"%zz", "http", "https", "HTTPS"},
      s \in {"", "s1", "S_1"}, i \in {0, 5}, t \in {Nil, <<0>>, <<5>>}}

\* the admission of a create request: the defaulter gives the object a
\* type and a timeout when it has none, the validator answers, and the API
\* server stores the object when no field error is reported
ValidateCreate(r) ==
  /\ Idle /\ rec[r].phase = "absent" /\ Events < MaxEnv
  /\ \E obj \in MavenArtifacts :
       LET defaulted == [obj EXCEPT !.type = IF @ = "" THEN "jar" ELSE @,
                                    !.timeout = IF @ = Nil THEN <<obj.interval>> ELSE @]
           allowed == validate(defaulted) = {}
       IN  /\ env' = [Changed(env) EXCEPT
                        !.admission = <<[object |-> obj, allowed |-> allowed]>>]
           /\ rec' = IF allowed THEN [rec EXCEPT ![r] = Object("live", defaulted, r)]
                     ELSE rec
  /\ UNCHANGED <<run, fs, certs, clock>>

\* create requests reach the webhooks of a cluster without records
SpecAdmission ==
  /\ InitWith({}, InitEnv)
  /\ [][\E r \in {"m1"} : ValidateCreate(r)]_vars

\* what the repository may say about the artifact: the latest version,
\* what the metadata of a snapshot lists, and no release
MetadataEnvs ==
  {[InitEnv EXCEPT !.latest = l, !.snapshot = sn] :
      l \in {"2.0", ""} \cup SnapshotVersions,
      sn \in {"none", "timestamped", "other", "mixed"}}
    \cup {[InitEnv EXCEPT !.release = ""]}

\* the first reconcile of a Maven artifact with any of its specs, against
\* a repository in any of these states, up to the end of its fetch stage
SpecResolve ==
  /\ \E e \in MetadataEnvs : InitWith({"m1"}, e)
  /\ [][\/ \E r \in Recs : Reconcile(r)
        \/ \E r \in Recs : MavenArtifactSecretsSyncReconciler(r)
        \/ \E r \in Recs : MavenArtifactVersionSyncReconciler(r)
        \/ \E r \in Recs : MavenArtifactDownloadSyncReconciler(r)]_vars

\* two Maven artifacts of one namespace, one of them with an artifactId
\* that names the directory of the other
InitShared ==
  /\ InitWith({"m1", "m2"}, InitEnv)
  /\ rec["m1"].spec = [MavenBase EXCEPT !.artifactId = "../../../../artifacts/mavenartifact/ns/m2/helloworld"]
  /\ rec["m2"].spec = MavenBase

\* the two are reconciled, one reconcile at a time or both at once
SpecShared ==
  /\ InitShared
  /\ [][\/ \E r \in Recs : Reconcile(r)
        \/ \E r \in Recs : MavenArtifactSecretsSyncReconciler(r)
        \/ \E r \in Recs : MavenArtifactVersionSyncReconciler(r)
        \/ \E r \in Recs : MavenArtifactDownloadSyncReconciler(r)
        \/ \E r \in Recs : IntervalReconciler(r)
        \/ \E r \in Recs : UpdateStatus(r)]_vars

\* two Maven artifacts of one namespace, the first naming a secret whose
\* caFile is no PEM, the second naming no secret: they are reconciled, secrets are changed and specs
\* are edited
SpecSecrets ==
  /\ \E e \in {[InitEnv EXCEPT !.secret["s1"] = BadPEM]} :
        /\ InitWith({"m1", "m2"}, e)
        /\ rec["m1"].spec = [MavenBase EXCEPT !.secretRef = "s1"]
        /\ rec["m2"].spec = MavenBase
  /\ [][\/ \E r \in Recs : Reconcile(r)
        \/ \E r \in Recs : MavenArtifactSecretsSyncReconciler(r)
        \/ \E r \in Recs : MavenArtifactVersionSyncReconciler(r)
        \/ \E r \in Recs : MavenArtifactDownloadSyncReconciler(r)
        \/ \E r \in Recs : IntervalReconciler(r)
        \/ \E r \in Recs : UpdateStatus(r)
        \/ \E r \in Recs : UpdateSpec(r)
        \/ ClusterChange]_vars

\* =============================================================== claims
\* C1: for every record whose deletion has not been requested, a status that
\* carries artifact.url names a file that exists below the artifact root,
\* also when creating, copying into or renaming the .new file fails (as long
\* as the volume has not been lost with the pod).
C1_UrlImpliesFile ==
  \A r \in Recs :
    (rec[r].phase = "live" /\ env.restarts = 0 /\ rec[r].status.artifact # Nil)
      => FileExists(fs[r], <<"tgz", rec[r].status.artifact[1].path[3]>>)

\* C2: the finalizer leaves a record only in a reconcile whose removal of
\* the record's directory has completed without error, and the directory is
\* then gone; when the removal returns an error the finalizer stays and the
\* reconcile ends with an error.
C2_FinalizerAfterRemoval ==
  [][\A r \in Recs :
       /\ (rec[r].finalizer /\ ~rec'[r].finalizer)
            => /\ run[r].pc = "end" /\ run[r].deleting /\ ~run[r].err
               /\ fs[r] = EmptyDir(r)
       /\ (run[r].pc = "end" /\ run[r].deleting /\ run[r].err /\ run'[r].pc = "idle")
            => rec'[r].finalizer /\ run'[r].err]_vars

\* a deleted record that had published an artifact is gone, and so is its
\* directory
C2_Witness ==
  \E r \in Recs :
    /\ rec[r].phase = "gone" /\ ~rec[r].finalizer
    /\ rec[r].status.artifact # Nil
    /\ fs[r] = EmptyDir(r)

\* C3 as stated: a Maven reconcile in which a request is answered with 429
\* or 5xx returns an error, and every condition is at its end as it was at
\* its start (as read from the record, or as initialized).
C3_ConditionsAsAtStart ==
  \A r \in MavenRecs :
    (\E q \in run[r].reqs : q[2] \in {"429", "500"})
      => /\ run[r].err
         /\ run[r].status.conds \in {run[r].start, run[r].orig.conds}

\* C3 amended: the stage whose request is answered with 429 or 5xx returns
\* an error that ends the reconcile and changes no condition; the
\* conditions written to the record are those the reconcile held when the
\* request was issued, and the reconcile ends with an error.
C3_StageLeavesConditions ==
  [][\A r \in MavenRecs :
       LET throttled(ru) == \E q \in ru.reqs : q[2] \in {"429", "500"}
       IN  /\ (throttled(run'[r]) /\ ~throttled(run[r]))
                => /\ run'[r].err /\ run'[r].pc = "end"
                   /\ run'[r].status.conds = run[r].status.conds
           /\ (throttled(run[r]) /\ run[r].pc = "end" /\ run'[r].pc = "idle")
                => /\ run'[r].err
                   /\ rec'[r].status.conds \in {run[r].status.conds, rec[r].status.conds}]_vars

\* the checksum request is answered with 500 after the resolve stage has
\* marked ArtifactVersionResolved True
C3_Witness ==
  \E r \in MavenRecs :
    /\ run[r].pc = "end" /\ run[r].err
    /\ <<"sha1", "500">> \in run[r].reqs
    /\ run[r].status.conds # run[r].start
    /\ run[r].status.conds[MavenArtifactConditionArtifactResolved].status = "True"

\* C4: once a stage has marked a condition False and returned no error, no
\* later resolve or fetch stage of that reconcile issues a request, writes
\* a file or changes a condition, status.url or status.artifact.
C4_NothingAfterSoftStop ==
  [][\A r \in Recs :
       (run[r].marked /\ run[r].pc \in {"digest", "pull", "version", "download"}
          /\ run'[r].pc # "idle")
         => /\ run'[r].status = run[r].status
            /\ run'[r].reqs = run[r].reqs
            /\ fs'[r] = fs[r]]_vars

\* C5: the trust store of the client stashed in a Maven reconcile of r is
\* the system pool, the operator's CA and the caFile of the secret r
\* references in that reconcile, and nothing else.
C5_TrustStoreOfRecord ==
  \A r \in MavenRecs :
    LET ref == run[r].spec.secretRef
        own == IF ref = "" \/ env.secret[ref] \in {"absent", "nodata", ""}
               THEN {} ELSE {env.secret[ref]}
    IN  run[r].stash.client # Nil
          => run[r].stash.client[1] = {SystemCertPool, OperatorCA} \cup own

\* C6: a record whose last reconcile ended with Ready True has, at
\* status.artifact.path, the complete tar.gz whose SHA-1 is
\* status.artifact.checksum (as long as the volume has not been lost).
C6_ReadyImpliesArchive ==
  \A r \in Recs :
    (rec[r].phase = "live" /\ env.restarts = 0
       /\ rec[r].status.conds[ConditionReady].status = "True")
      => /\ rec[r].status.artifact # Nil
         /\ LET a == rec[r].status.artifact[1]
                content == fs[r].files[<<"tgz", a.path[3]>>]
            IN  /\ fs[r].dir
                /\ content = Tgz(a.path[3])
                /\ sha1Checksum(content) = a.checksum

\* C7: while spec, secrets and remote content are unchanged, a reconcile of
\* a record that has an artifact ends with the very same status.artifact,
\* lastUpdateTime included, whether it skipped the fetch or repeated it.
C7_Idempotent ==
  \A r \in Recs :
    (run[r].pc = "end" /\ ~run[r].deleting /\ env.changes = 0
       /\ rec[r].status.artifact # Nil)
      => run[r].status.artifact = rec[r].status.artifact

\* the volume was lost, the second reconcile repeated the fetch at a later
\* time and ends with the artifact of the first
C7_Witness ==
  \E r \in Recs :
    /\ run[r].pc = "end" /\ ~run[r].err /\ ~run[r].deleting
    /\ env.changes = 0 /\ env.restarts > 0
    /\ rec[r].status.artifact # Nil
    /\ run[r].reqs \cap {<<"pull", "200">>, <<"file", "200">>} # {}
    /\ run[r].now > rec[r].status.artifact[1].lastUpdateTime
    /\ run[r].status.artifact = rec[r].status.artifact

\* C8: in a Maven reconcile that has the remote checksum, the artifact file
\* is not requested and status.url and status.artifact stay as they are
\* when the sidecar holds "<downloadURL>|<remoteSha1>" and status.artifact
\* is set; otherwise the download of the artifact file is started (unless
\* the stage returns an error).
C8_SkipIffCached ==
  [][\A r \in MavenRecs :
       LET st == run[r].stash
           hit == /\ run[r].status.artifact # Nil
                  /\ fs[r].cache[st.artifactVersion[1].filename]
                       = artifactCache(st.artifactVersion[1].url, sha1Checksum(Raw(env.sha)))
           started == \E q \in run'[r].reqs : q[1] = "file"
           sent == \E q \in run'[r].reqs : q[1] = "file" /\ q[2] # "unsent"
       IN  (run[r].pc = "download" /\ st.artifactVersion # Nil /\ st.client # Nil
              /\ <<"sha1", "200">> \in run'[r].reqs /\ ~run'[r].err)
             => IF hit
                THEN /\ ~sent /\ ~run'[r].panic
                     /\ run'[r].status.url = run[r].status.url
                     /\ run'[r].status.artifact = run[r].status.artifact
                ELSE started]_vars

\* C9: when the SHA-1 of the downloaded file differs from the remote .sha1
\* value, the fetch stage ends normally with ArtifactAvailable False and a
\* message that calls out tampering, and status.url and status.artifact
\* are as they were.
C9_TamperMarked ==
  \A r \in MavenRecs :
    <<"file", "tampered">> \in run[r].reqs
      => /\ ~run[r].panic
         /\ run[r].status.conds[MavenArtifactConditionArtifactAvailable].status = "False"
         /\ run[r].status.conds[MavenArtifactConditionArtifactAvailable].message = "tampered"
         /\ run[r].status.url = run[r].orig.url
         /\ run[r].status.artifact = run[r].orig.artifact

\* C10: when a Maven request fails because the deadline is exceeded, the
\* condition of that request (ArtifactVersionResolved for the metadata,
\* ArtifactAvailable for the checksum and the artifact file) is False with
\* reason Timeout and the reconcile returns no error.
C10_TimeoutMarked ==
  \A r \in MavenRecs :
    \A w \in {"metadata", "sha1", "file"} :
      <<w, "timeout">> \in run[r].reqs
        => LET t == IF w = "metadata" THEN MavenArtifactConditionArtifactResolved
                    ELSE MavenArtifactConditionArtifactAvailable
           IN  /\ ~run[r].panic /\ ~run[r].err
               /\ run[r].status.conds[t].status = "False"
               /\ run[r].status.conds[t].reason = "Timeout"

\* C11: when the maven-metadata.xml request is answered with 401, 404 or
\* another status outside 2xx, 429 and 5xx, ArtifactVersionResolved is False
\* with reason RemoteError, no stage returns an error and neither the
\* checksum nor the artifact file is requested in that reconcile; the same
\* answers to the .sha1 request leave ArtifactAvailable False with reason
\* RemoteError and no error.
C11_RemoteErrorMarked ==
  \A r \in MavenRecs :
    \A o \in {"401", "403", "404"} :
      /\ <<"metadata", o>> \in run[r].reqs
           => /\ ~run[r].err /\ ~run[r].panic
              /\ run[r].status.conds[MavenArtifactConditionArtifactResolved].status = "False"
              /\ run[r].status.conds[MavenArtifactConditionArtifactResolved].reason = "RemoteError"
              /\ \A q \in run[r].reqs : q[1] \notin {"sha1", "file"}
      /\ <<"sha1", o>> \in run[r].reqs
           => /\ ~run[r].err /\ ~run[r].panic
              /\ run[r].status.conds[MavenArtifactConditionArtifactAvailable].status = "False"
              /\ run[r].status.conds[MavenArtifactConditionArtifactAvailable].reason = "RemoteError"

\* the metadata request was answered with 404 and the reconcile has passed
\* the fetch stage
C11_Witness ==
  \E r \in MavenRecs :
    /\ run[r].pc = "end" /\ ~run[r].err
    /\ <<"metadata", "404">> \in run[r].reqs
    /\ run[r].status.conds[ConditionReady].reason = "RemoteError"

C13_HostRotation ==
  \A r \in Recs :
    (/\ run[r].pc = "end" /\ ~run[r].err /\ ~run[r].deleting
     /\ run[r].status.conds[ConditionReady].status = "True"
     /\ run[r].orig.artifact # Nil /\ run[r].orig.url # <<>>
     /\ run[r].orig.url[1] # httpHost
     /\ run[r].status.artifact # Nil
     /\ run[r].status.artifact[1].path = run[r].orig.artifact[1].path
     /\ FileExists(fs[r], <<"tgz", run[r].orig.artifact[1].path[3]>>))
      => LET a == run[r].status.artifact[1]
         IN  /\ run[r].status.url = HttpUrl(httpHost, a.path)
             /\ a.url = HttpUrl(httpHost, a.path)
             /\ a.lastUpdateTime = run[r].now

\* C14: whoever reads the artifact root while the controller runs finds at
\* the final path of an archive either no file or the complete tar.gz,
\* never a partially written one.
C14_NoPartialArchive ==
  \A r \in Recs :
    \A x \in ContentIds(r) :
      fs[r].files[<<"tgz", x>>] \in {NoFile, Tgz(x)}

\* C16: once the deletion of a record has completed (its finalizer is
\* removed and the record is gone), the record's directory below the
\* artifact root does not exist.
C16_NoDirectoryAfterDeletion ==
  \A r \in Recs :
    rec[r].phase = "gone" => ~fs[r].dir /\ fs[r] = EmptyDir(r)

\* a Maven record that was Ready, with an archive and a sidecar on disk, has
\* been deleted
C16_Witness ==
  \E r \in MavenRecs :
    /\ rec[r].phase = "gone" /\ env.restarts = 0
    /\ rec[r].status.conds[ConditionReady].status = "True"
    /\ rec[r].status.url # <<>>
    /\ ~fs[r].dir

\* C17: a reconcile of a record that is not being deleted and that returns
\* no error, also one that marked a condition False, returns a Result whose
\* RequeueAfter is spec.interval; a reconcile that returns an error returns
\* no RequeueAfter.
C17_RequeueAfterInterval ==
  [][\A r \in Recs :
       (run[r].pc = "end" /\ run'[r].pc = "idle")
         => IF run'[r].err THEN run'[r].requeue = 0
            ELSE ~run[r].deleting => run'[r].requeue = run[r].spec.interval]_vars

\* a reconcile that marked a condition False has returned no error and asks
\* for the next one after the interval of its record
C17_Witness ==
  \E r \in Recs :
    /\ run[r].pc = "idle" /\ ~run[r].err /\ ~run[r].panic
    /\ rec[r].phase = "live"
    /\ rec[r].status.conds[ConditionReady].status = "False"
    /\ run[r].requeue > 0 /\ run[r].requeue = rec[r].spec.interval

\* C19: a lookup that finds no service account, pull secret or Maven auth
\* secret ends its stage without error and with ImageResolved (or, for the
\* Maven secret, ArtifactVersionResolved) False, the reason being
\* ServiceAccountMissing or SecretMissing; a lookup that fails otherwise
\* ends its stage with an error and with every condition as it was.
C19_MissingDependency ==
  [][\A r \in Recs :
       \A q \in run'[r].reqs \ run[r].reqs :
         LET c == run'[r].status.conds[GetConditionSet(r)[1]]
         IN  /\ (q[1] \in Objects /\ q[2] = "notfound")
                  => /\ ~run'[r].err /\ ~run'[r].panic
                     /\ c.status = "False"
                     /\ c.reason = (IF q[1] \in ServiceAccounts
                                    THEN "ServiceAccountMissing" ELSE "SecretMissing")
             /\ (q[1] \in Objects /\ q[2] = "error")
                  => /\ run'[r].err
                     /\ run'[r].status.conds = run[r].status.conds]_vars

\* the pull secret an ImageRepository names is not there: the stage has
\* ended without error and Ready is False with reason SecretMissing
C19_Witness ==
  \E r \in ImageRecs :
    /\ run[r].pc = "digest" /\ ~run[r].err
    /\ \E n \in PullSecretNames : <<n, "notfound">> \in run[r].reqs
    /\ <<DefaultServiceAccount, "found">> \in run[r].reqs
    /\ run[r].status.conds[ConditionReady].reason = "SecretMissing"

\* C18: every lookup of a service account or secret registers the object
\* as tracked by the record, also when it is not found; and when the object
\* that the status of a record reports as missing (ServiceAccountMissing,
\* SecretMissing) is created or changed, the record is put on the queue.
C18_LookupsAreTracked ==
  [][\A r \in Recs :
       /\ \A q \in run'[r].reqs \ run[r].reqs :
            q[1] \in Objects => q[1] \in run'[r].tracked
       /\ LET c == rec[r].status.conds[GetConditionSet(r)[1]]
          IN  (/\ rec[r].phase = "live" /\ c.status = "False"
               /\ c.reason \in {"ServiceAccountMissing", "SecretMissing"}
               /\ c.message \in ChangedObjects(env, env'))
                => run'[r].enqueued]_vars

\* the secret a record was missing has been created, the record is on the
\* queue
C18_Witness ==
  \E r \in Recs :
    /\ rec[r].status.conds[ConditionReady].reason = "SecretMissing"
    /\ rec[r].status.conds[ConditionReady].message \in run[r].tracked
    /\ LET n == rec[r].status.conds[ConditionReady].message
       IN  IF r \in ImageRecs THEN n \in env.secrets ELSE env.secret[n] # "absent"
    /\ run[r].enqueued

C15_RecordsShareNoPath ==
  [][\A q \in Recs :
       (\/ \E n \in FileNames(q) : fs'[q].files[n] \notin {fs[q].files[n], NoFile}
        \/ \E n \in CacheNames(q) : fs'[q].cache[n] \notin {fs[q].cache[n], NoCache})
         => run'[q] # run[q]]_vars

\* C21: for a version that ends in -SNAPSHOT, the resolved version is the
\* requested version when the snapshot metadata lists no snapshotVersions,
\* and the timestamped build when the list has an entry of the artifact
\* type whose value is the timestamped build, whatever else it lists.
C21_SnapshotResolved ==
  \A r \in MavenRecs :
    (run[r].stash.artifactVersion # Nil /\ HasSnapshotSuffix(run[r].spec.version)) =>
      LET v == run[r].spec.version
          resolved == run[r].stash.artifactVersion[1].filename[3]
      IN  /\ env.snapshot = "none" => resolved = v
          /\ env.snapshot \in {"timestamped", "mixed"} => resolved = TimestampedVersion(v)

\* C22: when the version is RELEASE and the metadata names no release, or
\* LATEST and the metadata names no latest version, ArtifactVersionResolved
\* is False with reason VersionError and a message that says which is
\* missing, the stage returns no error, nothing is stashed and neither the
\* checksum nor the artifact file is requested.
C22_MissingReleaseOrLatest ==
  \A r \in MavenRecs :
    LET missing == IF run[r].spec.version = "RELEASE" /\ env.release = "" THEN "RELEASE"
                   ELSE IF run[r].spec.version = "LATEST" /\ env.latest = "" THEN "LATEST"
                   ELSE ""
        message == IF missing = "RELEASE"
                   THEN "artifact metadata does not have a RELEASE version"
                   ELSE "artifact metadata does not have a LATEST version"
    IN  (/\ missing # ""
         /\ run[r].pc \in {"download", "interval"}
         /\ <<"metadata", "200">> \in run[r].reqs)
          => /\ run[r].status.conds[MavenArtifactConditionArtifactResolved]
                  = [status |-> "False", reason |-> "VersionError", message |-> message]
             /\ ~run[r].err
             /\ run[r].stash.artifactVersion = Nil
             /\ \A q \in run[r].reqs : q[1] \notin {"sha1", "file"}

\* the fetch stage has run after a RELEASE, and after a LATEST, that the
\* metadata does not name
C22_Witness ==
  \E r \in MavenRecs :
    /\ run[r].pc = "interval"
    /\ <<"metadata", "200">> \in run[r].reqs
    /\ \/ run[r].spec.version = "RELEASE" /\ env.release = ""
       \/ run[r].spec.version = "LATEST" /\ env.latest = ""

\* C23: a version that starts with "[" or "(" is never resolved: validation
\* has a field error for it, and once the version stage has run on such a
\* record no metadata, checksum or artifact request was made,
\* ArtifactVersionResolved is False with reason VersionError and a message
\* that says ranges are not supported, no error is returned and nothing is
\* stashed.
C23_RangeNeverResolved ==
  \A r \in MavenRecs :
    run[r].spec.version \in RangeVersions
      => /\ "spec.artifact.version" \in validate(run[r].spec)
         /\ run[r].pc \in {"download", "interval"}
              => /\ run[r].status.conds[MavenArtifactConditionArtifactResolved]
                      = [status |-> "False", reason |-> "VersionError",
                         message |-> "Invalid version; ranges are not supported"]
                 /\ ~run[r].err
                 /\ run[r].stash.artifactVersion = Nil
                 /\ \A q \in run[r].reqs : q[1] \notin {"metadata", "sha1", "file"}

\* the fetch stage has run on a record whose version is a range
C23_Witness ==
  \E r \in MavenRecs :
    /\ run[r].spec.version \in RangeVersions
    /\ run[r].pc = "interval"

\* C24: when the pull stage finds the archive of the stashed digest in the
\* record's directory and status.url and status.artifact.url both equal the
\* computed URL, the stage pulls nothing, leaves status.url, status.artifact
\* and the directory as they are, returns no error, sets ArtifactAvailable
\* True, and sets ImageResolved True if it was Unknown.
C24_SkipPull ==
  [][\A r \in ImageRecs :
       LET st == run[r].stash
           ps == run[r].status
           httpUrl == HttpUrl(httpHost, HttpPath(r, st.imageRef[1].digest))
       IN  (/\ run[r].pc = "pull" /\ run'[r].pc # "pull"
            /\ st.imageRef # Nil
            /\ FileExists(fs[r], <<"tgz", st.imageRef[1].digest>>)
            /\ ps.url = httpUrl
            /\ ps.artifact # Nil /\ ps.artifact[1].url = httpUrl)
             => /\ run'[r].pc = "interval" /\ ~run'[r].err
                /\ run'[r].reqs = run[r].reqs
                /\ run'[r].status.url = ps.url
                /\ run'[r].status.artifact = ps.artifact
                /\ fs'[r] = fs[r]
                /\ run'[r].status.conds[ImageRepositoryConditionArtifactAvailable].status = "True"
                /\ ConditionIsUnknown(ps.conds[ImageRepositoryConditionImageResolved])
                     => run'[r].status.conds[ImageRepositoryConditionImageResolved].status = "True"
                /\ ~ConditionIsUnknown(ps.conds[ImageRepositoryConditionImageResolved])
                     => run'[r].status.conds[ImageRepositoryConditionImageResolved]
                          = ps.conds[ImageRepositoryConditionImageResolved]]_vars

\* a later reconcile has passed the pull stage without a pull: the archive
\* was there and the status named it
C24_Witness ==
  \E r \in ImageRecs :
    /\ run[r].pc = "interval" /\ ~run[r].err
    /\ run[r].stash.imageRef # Nil
    /\ \A q \in run[r].reqs : q[1] # "pull"
    /\ run[r].status.artifact # Nil
    /\ run[r].status.artifact = rec[r].status.artifact
    /\ run[r].status.url = HttpUrl(httpHost, HttpPath(r, run[r].stash.imageRef[1].digest))
    /\ FileExists(fs[r], <<"tgz", run[r].stash.imageRef[1].digest>>)
    /\ run[r].status.conds[ImageRepositoryConditionArtifactAvailable].status = "True"

\* C25: when spec.image is a digest reference, the digest stage stashes
\* spec.image itself as the resolved reference, makes no HEAD request to the
\* registry, returns no error and leaves the status as it is, whether or
\* not pull secrets were stashed.
C25_DigestPassthrough ==
  [][\A r \in ImageRecs :
       (/\ run[r].pc = "digest" /\ run'[r].pc # "digest"
        /\ run[r].spec.image.shape = "digest")
         => /\ run'[r].pc = "pull" /\ ~run'[r].err
            /\ run'[r].stash.imageRef = <<run[r].spec.image>>
            /\ run'[r].reqs = run[r].reqs
            /\ run'[r].status = run[r].status]_vars

\* the digest stage has run on a digest reference, with pull secrets
\* stashed
C25_Witness ==
  \E r \in ImageRecs :
    /\ run[r].pc = "pull"
    /\ run[r].spec.image.shape = "digest"
    /\ run[r].stash.pullSecrets # Nil
    /\ run[r].stash.imageRef = <<run[r].spec.image>>
    /\ \A q \in run[r].reqs : q[1] # "head"

C27_AdmittedIff ==
  env.admission # Nil
    => LET o == env.admission[1].object
       IN  env.admission[1].allowed
             <=> /\ o.groupId # "" /\ o.artifactId # "" /\ o.version # ""
                 /\ o.version \notin {"[1.0,2.0)", "(,1.0]"}
                 /\ o.scheme \in {"https", "HTTPS"}
                 /\ o.secretRef \in {"", "s1"}
                 /\ o.interval > 0
                 /\ o.timeout = Nil \/ o.timeout[1] > 0

\* an object with a secret and without a timeout was admitted and is stored
\* with the timeout the defaulter gave it
C27_Witness ==
  /\ env.admission # Nil /\ env.admission[1].allowed
  /\ env.admission[1].object.timeout = Nil
  /\ env.admission[1].object.secretRef = "s1"
  /\ rec["m1"].phase = "live"
  /\ rec["m1"].spec.timeout = <<rec["m1"].spec.interval>>

\* C28: the artifact server answers 404 to every request whose path names
\* a directory of the artifact root, with or without "/" at its end: it
\* sends no listing of the directory and no redirect from the directory to
\* the directory with "/".
C28_DirectoryNotFound ==
  env.response # Nil
    => LET q == env.response[1]
       IN  q.stat = "dir"
             => /\ q.res.status = 404
                /\ q.res.location = <<>>
                /\ q.res.body = "404 page not found"

\* C29: for a Maven record whose spec does not change: when from some point
\* on every step of every reconcile is a step in which the remote ends
\* answer 200 with the content the checksum names, no step on the file
\* system fails, no stage panics and the API server takes every write,
\* then from some point on the record has ArtifactAvailable True and Ready
\* True, whatever the reconciles before left in the conditions, the sidecar
\* and the status.
C29_EventuallyReady ==
  (<>[][\/ ReconcileNow("m1") /\ ~run'["m1"].err
        \/ /\ run["m1"].pc = "secrets"
           /\ MavenArtifactSecretsSyncReconciler("m1") /\ ~run'["m1"].err
        \/ /\ run["m1"].pc = "version"
           /\ Advance("m1", MavenArtifactVersionSync(run["m1"].stash, run["m1"].status,
                               Mounted("m1"), run["m1"].spec, env, "200", "200", TRUE),
                      "download", certs)
        \/ /\ run["m1"].pc = "download"
           /\ Advance("m1", MavenArtifactDownloadSync(run["m1"].stash, run["m1"].status,
                               Mounted("m1"), "m1", env, run["m1"].now, DownloadOk),
                      "interval", certs)
           /\ ~run'["m1"].panic
        \/ IntervalReconciler("m1")
        \/ UpdateStatus("m1") /\ ~run'["m1"].err]_vars)
    => <>[](/\ rec["m1"].status.conds[MavenArtifactConditionArtifactAvailable].status = "True"
            /\ rec["m1"].status.conds[ConditionReady].status = "True")

\* C30: when the download stage of a Maven reconcile has ended and
\* ArtifactVersionResolved and ArtifactAvailable are both True,
\* status.artifact.revision is the file name resolved in this reconcile and
\* status.artifact.path is the path of the archive built from that file,
\* however the version of the record was edited before and whatever status
\* writes were lost.
C30_RevisionIsResolved ==
  \A r \in MavenRecs :
    (/\ run[r].pc \in {"interval", "end"} /\ ~run[r].err
     /\ run[r].stash.artifactVersion # Nil
     /\ run[r].status.conds[MavenArtifactConditionArtifactResolved].status = "True"
     /\ run[r].status.conds[MavenArtifactConditionArtifactAvailable].status = "True")
      => /\ run[r].status.artifact # Nil
         /\ run[r].status.artifact[1].revision = run[r].stash.artifactVersion[1].filename
         /\ run[r].status.artifact[1].path = HttpPath(r, env.blob)

\* C31: whenever the directory of a Maven record that is not being deleted
\* holds a sidecar "<downloadURL>|<remoteSha1>", it also holds the complete
\* tar.gz packaged from the download with that checksum: the archive is
\* renamed into place before the sidecar is written.
C31_SidecarImpliesArchive ==
  \A r \in MavenRecs : \A n \in CacheNames(r) : \A x \in Blobs :
    (rec[r].phase = "live"
       /\ fs[r].cache[n].state = "ok"
       /\ fs[r].cache[n].checksum = sha1Checksum(Raw(x)))
      => fs[r].dir /\ fs[r].files[<<"tgz", x>>] = Tgz(x)

\* C32: a fetch stage of a Maven reconcile that finds the sidecar of the
\* resolved file present without the form "<sourceURL>|<sha1>" does not abort
\* because of it, and once it has the remote checksum it goes on to download
\* the artifact file as it does when there is no sidecar.
C32_MalformedIsMiss ==
  [][\A r \in MavenRecs :
       LET st == run[r].stash
       IN  (run[r].pc = "download" /\ st.artifactVersion # Nil /\ st.client # Nil
              /\ Mounted(r).cache[st.artifactVersion[1].filename] = MalformedCache
              /\ run'[r] # run[r])
             => /\ ~run'[r].panic
                /\ (<<"sha1", "200">> \in run'[r].reqs /\ ~run'[r].err)
                     => \E q \in run'[r].reqs : q[1] = "file"]_vars

\* C33: the secrets stage of a Maven reconcile builds the HTTP client and
\* returns no error whenever the record references no secret, or the secret
\* it references is read and its caFile is not an invalid PEM, whatever the
\* secrets of other records hold and whatever this secret held before.
C33_BadPEMIsLocal ==
  [][\A r \in MavenRecs :
       LET ref == run[r].spec.secretRef
       IN  (run[r].pc = "secrets" /\ run'[r] # run[r]
              /\ (ref = "" \/ (<<ref, "found">> \in run'[r].reqs /\ env.secret[ref] # BadPEM)))
             => ~run'[r].err /\ run'[r].stash.client # Nil]_vars

\* C34: when a reconcile of a record of either kind starts, every condition
\* type present in the record's status enters the reconcile with the status,
\* reason and message it has in the record, and every missing one enters it
\* as Unknown.
C34_PresentConditionsKept ==
  [][\A r \in Recs : \A t \in CondTypes(r) :
       (run[r].pc = "idle" /\ run'[r].pc \notin {"idle", "end"})
         => IF rec[r].status.conds[t] # NoCond
            THEN run'[r].status.conds[t] = rec[r].status.conds[t]
            ELSE run'[r].status.conds[t].status = "Unknown"]_vars

\* C35: every step of a reconcile of a record whose deletion has been
\* requested only cleans up: it runs no stage but the removal of the
\* record's directory, looks up no object and sends no request, removes
\* files under the artifact root but creates or rewrites none, and leaves
\* the status of the record as it is.
C35_OnlyCleanup ==
  [][\A r \in Recs :
       ((run[r].pc = "idle" /\ rec[r].phase = "deleting" /\ run'[r].pc # "idle")
          \/ (run[r].pc # "idle" /\ run[r].deleting))
         => /\ run'[r].pc \in {"finalize", "end", "idle"}
            /\ run'[r].reqs = {} /\ run'[r].tracked = run[r].tracked
            /\ rec'[r].status = rec[r].status
            /\ \A n \in FileNames(r) : fs'[r].files[n] \in {NoFile, fs[r].files[n]}
            /\ \A n \in CacheNames(r) : fs'[r].cache[n] \in {NoCache, fs[r].cache[n]}]_vars

\* the reconcile of a deleted record that had published an artifact has
\* removed the directory; the status of the record is the one it had
C35_Witness ==
  \E r \in Recs :
    /\ run[r].pc = "end" /\ run[r].deleting /\ ~run[r].err
    /\ rec[r].phase = "deleting" /\ rec[r].status.artifact # Nil
    /\ rec[r].status = run[r].orig
    /\ run[r].status # run[r].orig
    /\ fs[r] = EmptyDir(r)

\* C36: a record whose reconcile is in one of its stages carries the
\* finalizer, a reconcile whose finalizer patch failed has run no stage, and
\* a record directory that exists or holds a file belongs to a record that
\* carries the finalizer.
C36_FilesImplyFinalizer ==
  \A r \in Recs :
    /\ run[r].pc \notin {"idle", "end"} => rec[r].finalizer
    /\ (run[r].pc = "end" /\ ~rec[r].finalizer /\ rec[r].phase = "live")
         => run[r].err /\ run[r].reqs = {} /\ run[r].status.conds = run[r].start
    /\ fs[r] # EmptyDir(r) => rec[r].finalizer

\* a reconcile of a record that had published nothing has written the
\* finalizer and then an archive
C36_Witness ==
  \E r \in Recs :
    /\ run[r].pc = "end" /\ ~run[r].err
    /\ rec[r].finalizer /\ rec[r].status.artifact = Nil
    /\ run[r].status.artifact # Nil
    /\ FileExists(fs[r], <<"tgz", run[r].status.artifact[1].path[3]>>)

\* C37: a fetch stage that returns an error, panics or ends without
\* ArtifactAvailable True leaves status.url and status.artifact of the
\* reconcile as they are in the record, and the status write that ends such
\* a reconcile leaves them in the record as they were.
C37_FailedFetchKeepsArtifact ==
  [][\A r \in Recs :
       /\ (run[r].pc \in {"pull", "download"} /\ run'[r] # run[r]
             /\ (run'[r].err \/ run'[r].panic
                   \/ run'[r].status.conds[MavenArtifactConditionArtifactAvailable].status # "True"))
            => /\ rec'[r].status = rec[r].status
               /\ ~run'[r].panic => /\ run'[r].status.url = rec[r].status.url
                                    /\ run'[r].status.artifact = rec[r].status.artifact
       /\ (run[r].pc = "end"
             /\ (run[r].err
                   \/ run[r].status.conds[MavenArtifactConditionArtifactAvailable].status # "True"))
            => /\ rec'[r].status.url = rec[r].status.url
               /\ rec'[r].status.artifact = rec[r].status.artifact]_vars

\* a record that has published an artifact is reconciled after the volume
\* was lost: the artifact file is requested and not found, the reconcile
\* ends with ArtifactAvailable False and what is published is as it was
C37_Witness ==
  \E r \in MavenRecs :
    /\ run[r].pc = "end" /\ rec[r].status.artifact # Nil
    /\ <<"file", "404">> \in run[r].reqs
    /\ run[r].status.conds[MavenArtifactConditionArtifactAvailable].status = "False"
    /\ run[r].status.artifact = rec[r].status.artifact
    /\ run[r].status.url = rec[r].status.url


====
